---- MODULE Spec2Model ----
(***************************************************************************)
(* State-machine model of the portfolio knowledge graph (src/script.js,    *)
(* the revision with manual cross-references, lines 1967-3899): the graph  *)
(* builder, the subgraph visibility controller, hover/click/drag dispatch, *)
(* the deferred viewport reframes and the link opacity transitions.        *)
(*                                                                         *)
(* Strings are sequences of one-character strings so that slugify, split   *)
(* and trim are computed character by character as the code does.          *)
(***************************************************************************)
EXTENDS Integers, Sequences, FiniteSets, TLC

\* ------------------------------------------------------------------------
\* Bounds of the model
\* ------------------------------------------------------------------------

\* Largest number of content blocks inside one item-bearing section.
MaxItems == 2

\* Number of times buildGraphData runs over the same page in SpecBuild.
MaxBuilds == 2

\* Largest number of setTimeout callbacks pending at once.
MaxTimers == 2

\* ------------------------------------------------------------------------
\* Strings
\* ------------------------------------------------------------------------

LowerLetters ==
  {"a","b","c","d","e","f","g","h","i","j","k","l","m",
   "n","o","p","q","r","s","t","u","v","w","x","y","z"}

DigitChars == <<"0","1","2","3","4","5","6","7","8","9">>

DigitSet == {DigitChars[i] : i \in 1..10}

\* String.prototype.toLowerCase on one character of the model's alphabet.
toLowerCase(c) ==
  CASE c = "A" -> "a"
    [] c = "B" -> "b"
    [] c = "X" -> "x"
    [] OTHER -> c

LowerStr(s) == [i \in 1..Len(s) |-> toLowerCase(s[i])]

\* The character class [a-z0-9] of slugify's first regular expression.
IsSlugChar(c) == c \in LowerLetters \cup DigitSet

RECURSIVE DropNonSlug(_)
DropNonSlug(s) ==
  IF s = <<>> \/ IsSlugChar(Head(s)) THEN s ELSE DropNonSlug(Tail(s))

\* .replace(/[^a-z0-9]+/g, '-') : every maximal run of other characters
\* becomes one dash.
RECURSIVE ReplaceRuns(_)
ReplaceRuns(s) ==
  IF s = <<>> THEN <<>>
  ELSE IF IsSlugChar(Head(s)) THEN <<Head(s)>> \o ReplaceRuns(Tail(s))
  ELSE <<"-">> \o ReplaceRuns(DropNonSlug(Tail(s)))

RECURSIVE DropLeading(_, _)
DropLeading(s, c) ==
  IF s = <<>> \/ Head(s) # c THEN s ELSE DropLeading(Tail(s), c)

RECURSIVE DropTrailing(_, _)
DropTrailing(s, c) ==
  IF s = <<>> \/ s[Len(s)] # c THEN s
  ELSE DropTrailing(SubSeq(s, 1, Len(s) - 1), c)

\* .replace(/^-+|-+$/g, '')
TrimDashes(s) == DropTrailing(DropLeading(s, "-"), "-")

\* slugify(text): lower-case, dash the runs, trim the dashes, or 'node'.
slugify(text) ==
  LET t == TrimDashes(ReplaceRuns(LowerStr(text)))
  IN IF t = <<>> THEN <<"n","o","d","e">> ELSE t

\* String(fallbackIdx) inside the template literal: decimal digits.
RECURSIVE Decimal(_)
Decimal(n) ==
  IF n < 10 THEN <<DigitChars[n + 1]>>
  ELSE Decimal(n \div 10) \o <<DigitChars[(n % 10) + 1]>>

\* String.prototype.trim (the only white space of the alphabet is " ").
Trim(s) == DropTrailing(DropLeading(s, " "), " ")

\* String.prototype.split(','): the pieces between the commas; the empty
\* string splits into one empty piece.
RECURSIVE SplitFrom(_, _)
SplitFrom(s, cur) ==
  IF s = <<>> THEN <<cur>>
  ELSE IF Head(s) = "," THEN <<cur>> \o SplitFrom(Tail(s), <<>>)
  ELSE SplitFrom(Tail(s), Append(cur, Head(s)))

SplitComma(s) == SplitFrom(s, <<>>)

\* ------------------------------------------------------------------------
\* Graph configuration and the page content the builder reads
\* ------------------------------------------------------------------------

Work == <<"w","o","r","k">>

Projects == <<"p","r","o","j","e","c","t","s">>

Media == <<"m","e","d","i","a">>

Contact == <<"c","o","n","t","a","c","t">>

Intro == <<"i","n","t","r","o">>

\* Object.entries(sectionConfig), in declaration order.
sectionConfig == <<Work, Projects, Media, Contact>>

SectionKeys == {sectionConfig[i] : i \in 1..Len(sectionConfig)}

CenterId == <<"c","e","n","t","e","r">>

\* The id of a category node: `cat-${catKey}`.
CatId(catKey) == <<"c","a","t","-">> \o catKey

\* category: null on the center node.
NullKey == <<>>

\* fx / fy = null: the node is not pinned.
Unpinned == -1

Themes == {"dark", "light"}

\* COLORS[theme]: the colors the nodes take from the theme.
COLORS(theme) ==
  IF theme = "dark" THEN [node |-> "#A3AAA7", center |-> "#1D7A84"]
  ELSE [node |-> "#5E6461", center |-> "#0F4D56"]

\* sectionConfig[catKey].color
ConfigColor(catKey) ==
  CASE catKey = Work -> "#3D5FA8"
    [] catKey = Projects -> "#347A5C"
    [] catKey = Media -> "#B35F2E"
    [] OTHER -> "#7D529A"

\* NODE_COLOR and CENTER_COLOR as the script initialises them.
NODE_COLOR == COLORS("dark").node

CENTER_COLOR == COLORS("dark").center

\* A content block of the page (an element matched by itemSelector):
\* graphId is dataset.graphId (<<>> when the attribute is absent or empty,
\* both falsy), text the label text before trim(), graphLinksTo the raw
\* data-graph-links-to attribute (<<>> when absent or empty).
ItemEl(graphId, text, graphLinksTo) ==
  [graphId |-> graphId, text |-> text, graphLinksTo |-> graphLinksTo]

\* A .section-block of the page: present or not, with its content blocks.
Block(items) == [present |-> TRUE, items |-> items]

NoBlock == [present |-> FALSE, items |-> <<>>]

\* ------------------------------------------------------------------------
\* Graph builder
\* ------------------------------------------------------------------------

\* collectItemData: the item node of one content block.
collectItemData(sectionKey, itemEl, fallbackIdx) ==
  LET explicitId == itemEl.graphId
      label == Trim(itemEl.text)
      id == IF explicitId # <<>> THEN explicitId
            ELSE sectionKey \o <<"-">> \o slugify(label) \o <<"-">>
                 \o Decimal(fallbackIdx)
      parts == SplitComma(itemEl.graphLinksTo)
      linksTo == IF itemEl.graphLinksTo # <<>>
                 THEN [i \in 1..Len(parts) |-> Trim(parts[i])]
                 ELSE <<>>
  IN [id |-> id, label |-> label, type |-> "item", category |-> sectionKey,
      linksTo |-> linksTo, hidden |-> TRUE, fx |-> Unpinned, fy |-> Unpinned,
      color |-> NODE_COLOR]

\* The center node of buildGraphData, pinned at the container's center.
centerNode(centerX, centerY) ==
  [id |-> CenterId, label |-> <<"m","e">>, type |-> "center",
   category |-> NullKey, linksTo |-> <<>>, hidden |-> FALSE,
   fx |-> centerX, fy |-> centerY, color |-> CENTER_COLOR]

\* The category node pushed for a section block that is present.
categoryNode(catKey) ==
  [id |-> CatId(catKey), label |-> catKey, type |-> "category",
   category |-> catKey, linksTo |-> <<>>, hidden |-> FALSE,
   fx |-> Unpinned, fy |-> Unpinned, color |-> ConfigColor(catKey)]

\* items.forEach((itemEl, itemIdx) => ...): the item nodes of one block.
ItemNodes(catKey, items) ==
  [i \in 1..Len(items) |-> collectItemData(catKey, items[i], i - 1)]

\* A faulty variant of CategoryNodes without the early return for a
\* missing section block.
CategoryNodes_NoSkip(page, catKey) ==
  <<categoryNode(catKey)>> \o ItemNodes(catKey, page.blocks[catKey].items)

\* The nodes one iteration of categories.forEach pushes (none when the
\* section block is missing).
CategoryNodes(page, catKey) ==
  IF ~page.blocks[catKey].present THEN <<>>
  ELSE <<categoryNode(catKey)>> \o ItemNodes(catKey, page.blocks[catKey].items)

\* The spine and branch links the same iteration pushes.
CategoryLinks(page, catKey) ==
  IF ~page.blocks[catKey].present THEN <<>>
  ELSE LET its == ItemNodes(catKey, page.blocks[catKey].items)
       IN <<[source |-> CenterId, target |-> CatId(catKey), type |-> "spine"]>>
          \o [i \in 1..Len(its) |->
                [source |-> CatId(catKey), target |-> its[i].id, type |-> "branch"]]

\* categories.forEach: the nodes pushed for sectionConfig[from] and the
\* entries after it, in the order of Object.entries(sectionConfig).
RECURSIVE AllCategoryNodes(_, _)
AllCategoryNodes(page, from) ==
  IF from > Len(sectionConfig) THEN <<>>
  ELSE CategoryNodes(page, sectionConfig[from]) \o AllCategoryNodes(page, from + 1)

\* The spine and branch links the same loop pushes.
RECURSIVE AllCategoryLinks(_, _)
AllCategoryLinks(page, from) ==
  IF from > Len(sectionConfig) THEN <<>>
  ELSE CategoryLinks(page, sectionConfig[from]) \o AllCategoryLinks(page, from + 1)

\* nodeIndex.get(id): nodeIndex.set(node.id, node) runs once per item node in
\* push order, so a repeated id maps to the last item node carrying it.
\* 0 stands for undefined.
nodeIndexGet(nodes, id) ==
  LET S == {i \in 1..Len(nodes) : nodes[i].type = "item" /\ nodes[i].id = id}
  IN IF S = {} THEN 0 ELSE CHOOSE i \in S : \A j \in S : j <= i

\* A faulty variant of LinksOfNode that gives up at the first target that
\* does not resolve.
RECURSIVE LinksOfNode_StopAtMissing(_, _, _)
LinksOfNode_StopAtMissing(nodes, n, k) ==
  IF k > Len(nodes[n].linksTo) THEN <<>>
  ELSE LET t == nodeIndexGet(nodes, nodes[n].linksTo[k])
       IN IF t = 0 THEN <<>>
          ELSE (IF nodes[t].id # nodes[n].id
                THEN <<[source |-> nodes[n].id, target |-> nodes[t].id,
                        type |-> "reference"]>>
                ELSE <<>>)
               \o LinksOfNode_StopAtMissing(nodes, n, k + 1)

\* A faulty variant of LinksOfNode that pushes a link for every listed
\* target, resolved or not.
RECURSIVE LinksOfNode_Unchecked(_, _, _)
LinksOfNode_Unchecked(nodes, n, k) ==
  IF k > Len(nodes[n].linksTo) THEN <<>>
  ELSE <<[source |-> nodes[n].id, target |-> nodes[n].linksTo[k],
          type |-> "reference"]>>
       \o LinksOfNode_Unchecked(nodes, n, k + 1)

\* node.linksTo.forEach(targetId => ...): the reference links of one node,
\* from position k of its linksTo on.
RECURSIVE LinksOfNode(_, _, _)
LinksOfNode(nodes, n, k) ==
  IF k > Len(nodes[n].linksTo) THEN <<>>
  ELSE LET t == nodeIndexGet(nodes, nodes[n].linksTo[k])
       IN (IF t # 0 /\ nodes[t].id # nodes[n].id
           THEN <<[source |-> nodes[n].id, target |-> nodes[t].id,
                   type |-> "reference"]>>
           ELSE <<>>)
          \o LinksOfNode(nodes, n, k + 1)

\* nodes.forEach(node => ...): the manual reference links, from node n on.
RECURSIVE ReferenceLinks(_, _)
ReferenceLinks(nodes, n) ==
  IF n > Len(nodes) THEN <<>>
  ELSE (IF nodes[n].type # "item" \/ Len(nodes[n].linksTo) = 0 THEN <<>>
        ELSE LinksOfNode(nodes, n, 1))
       \o ReferenceLinks(nodes, n + 1)

\* A faulty variant of the write-back that leaves only the slug of the label
\* on the content block.
WriteBack_SlugOnly(page) ==
  [page EXCEPT !.blocks =
    [key \in DOMAIN page.blocks |->
      IF key \in SectionKeys /\ page.blocks[key].present
      THEN [page.blocks[key] EXCEPT !.items =
             [i \in 1..Len(page.blocks[key].items) |->
               [page.blocks[key].items[i] EXCEPT
                 !.graphId = slugify(Trim(page.blocks[key].items[i].text))]]]
      ELSE page.blocks[key]]]

\* itemEl.dataset.graphId = id: the page as buildGraphData leaves it.
WriteBack(page) ==
  [page EXCEPT !.blocks =
    [key \in DOMAIN page.blocks |->
      IF key \in SectionKeys /\ page.blocks[key].present
      THEN [page.blocks[key] EXCEPT !.items =
             [i \in 1..Len(page.blocks[key].items) |->
               [page.blocks[key].items[i] EXCEPT
                 !.graphId = collectItemData(key, page.blocks[key].items[i], i - 1).id]]]
      ELSE page.blocks[key]]]

\* buildGraphData(): { nodes, links } from the page and the container size.
buildGraphData(page, centerX, centerY) ==
  LET nodes == <<centerNode(centerX, centerY)>> \o AllCategoryNodes(page, 1)
  IN [nodes |-> nodes,
      links |-> AllCategoryLinks(page, 1) \o ReferenceLinks(nodes, 1)]

\* ------------------------------------------------------------------------
\* Graph builder of the revision with automatic reference detection
\* (src/script.js lines 1-1149)
\* ------------------------------------------------------------------------

Opensource == <<"o","p","e","n","s","o","u","r","c","e">>

Talks == <<"t","a","l","k","s">>

\* Object.entries(sectionConfig) of that revision.
sectionConfigAuto == <<Work, Opensource, Talks, Contact>>

SectionKeysAuto == {sectionConfigAuto[i] : i \in 1..Len(sectionConfigAuto)}

\* A content block as that revision reads it: dataset.graphId,
\* dataset.graphRef (<<>> when absent or empty) and the text content.
AutoEl(graphId, graphRef, text) ==
  [graphId |-> graphId, graphRef |-> graphRef, text |-> text]

\* s starts with the characters of pre.
StartsWith(s, pre) == Len(s) >= Len(pre) /\ SubSeq(s, 1, Len(pre)) = pre

\* .replace(/^(work|opensource|talks|contact)-/, ''): the alternation takes
\* the first key, in the order written, that the string starts with.
RECURSIVE StripSectionPrefix(_, _)
StripSectionPrefix(s, k) ==
  IF k > Len(sectionConfigAuto) THEN s
  ELSE LET pre == sectionConfigAuto[k] \o <<"-">>
       IN IF StartsWith(s, pre) THEN SubSeq(s, Len(pre) + 1, Len(s))
          ELSE StripSectionPrefix(s, k + 1)

\* The number of digits the string ends with.
RECURSIVE TrailingDigits(_)
TrailingDigits(s) ==
  IF s = <<>> \/ s[Len(s)] \notin DigitSet THEN 0
  ELSE 1 + TrailingDigits(SubSeq(s, 1, Len(s) - 1))

\* .replace(/-\d+$/, ''): a final dash followed by digits only is removed.
StripIndexSuffix(s) ==
  LET d == TrailingDigits(s)
  IN IF d > 0 /\ Len(s) > d /\ s[Len(s) - d] = "-"
     THEN SubSeq(s, 1, Len(s) - d - 1) ELSE s

\* extractReferenceId(idOrLabel)
extractReferenceId(idOrLabel) ==
  LowerStr(StripIndexSuffix(StripSectionPrefix(idOrLabel, 1)))

\* collectItemData of that revision: the label is the trimmed text, the
\* subtitle is empty, fullText is (label + ' ' + subtitle + ' ' + text)
\* in lower case.
collectItemDataAuto(sectionKey, itemEl, fallbackIdx) ==
  LET explicitId == itemEl.graphId
      label == Trim(itemEl.text)
      id == IF explicitId # <<>> THEN explicitId
            ELSE sectionKey \o <<"-">> \o slugify(label) \o <<"-">>
                 \o Decimal(fallbackIdx)
      referenceId == IF itemEl.graphRef # <<>> THEN itemEl.graphRef
                     ELSE extractReferenceId(id)
  IN [id |-> id, label |-> label, type |-> "item", category |-> sectionKey,
      referenceId |-> referenceId,
      fullText |-> LowerStr(label \o <<" ">> \o <<" ">> \o itemEl.text),
      hidden |-> TRUE]

\* The class \w of regular expressions.
IsWordChar(c) == c \in LowerLetters \cup DigitSet \cup {"A", "B", "X", "_"}

\* \b at position p of text (between the characters p - 1 and p): exactly
\* one of the two is a word character.
WordBoundary(text, p) ==
  (p - 1 >= 1 /\ IsWordChar(text[p - 1])) # (p <= Len(text) /\ IsWordChar(text[p]))

\* One character of the pattern against one character of the text, under
\* the flag i: the token is put into the pattern as it is, so a dot in it
\* stands for any character; letters, digits, dashes and spaces stand for
\* themselves.
PatternCharTest(p, c) ==
  IF p = "." THEN c # "\n" ELSE toLowerCase(p) = toLowerCase(c)

\* new RegExp(`\\b${refId}\\b`, 'i').test(textLower), for a refId made of
\* letters, digits, dashes, spaces and dots.
WholeWordTest(refId, textLower) ==
  \E i \in 1..Len(textLower) :
    /\ i + Len(refId) - 1 <= Len(textLower)
    /\ \A j \in 1..Len(refId) : PatternCharTest(refId[j], textLower[i + j - 1])
    /\ WordBoundary(textLower, i)
    /\ WordBoundary(textLower, i + Len(refId))

\* findReferences(text, allReferenceIds), from position k of the ids on.
RECURSIVE findReferences(_, _, _)
findReferences(text, allReferenceIds, k) ==
  IF k > Len(allReferenceIds) THEN <<>>
  ELSE (IF Len(allReferenceIds[k]) >= 3 /\ WholeWordTest(allReferenceIds[k], LowerStr(text))
        THEN <<allReferenceIds[k]>> ELSE <<>>)
       \o findReferences(text, allReferenceIds, k + 1)

\* The nodes and links one iteration of categories.forEach pushes.
CategoryNodesAuto(page, catKey) ==
  IF ~page.blocks[catKey].present THEN <<>>
  ELSE <<[id |-> CatId(catKey), label |-> catKey, type |-> "category",
          category |-> catKey, referenceId |-> <<>>, fullText |-> <<>>,
          hidden |-> FALSE]>>
       \o [i \in 1..Len(page.blocks[catKey].items) |->
            collectItemDataAuto(catKey, page.blocks[catKey].items[i], i - 1)]

CategoryLinksAuto(page, catKey) ==
  IF ~page.blocks[catKey].present THEN <<>>
  ELSE <<[source |-> CenterId, target |-> CatId(catKey), type |-> "spine"]>>
       \o [i \in 1..Len(page.blocks[catKey].items) |->
            [source |-> CatId(catKey),
             target |-> collectItemDataAuto(catKey, page.blocks[catKey].items[i], i - 1).id,
             type |-> "branch"]]

RECURSIVE AllCategoryNodesAuto(_, _)
AllCategoryNodesAuto(page, from) ==
  IF from > Len(sectionConfigAuto) THEN <<>>
  ELSE CategoryNodesAuto(page, sectionConfigAuto[from])
       \o AllCategoryNodesAuto(page, from + 1)

RECURSIVE AllCategoryLinksAuto(_, _)
AllCategoryLinksAuto(page, from) ==
  IF from > Len(sectionConfigAuto) THEN <<>>
  ELSE CategoryLinksAuto(page, sectionConfigAuto[from])
       \o AllCategoryLinksAuto(page, from + 1)

\* Array.from(nodeIndex.keys()): the distinct reference ids of the item
\* nodes, in the order of their first nodeIndex.set, from node n on.
RECURSIVE nodeIndexKeys(_, _, _)
nodeIndexKeys(nodes, n, acc) ==
  IF n > Len(nodes) THEN acc
  ELSE nodeIndexKeys(nodes, n + 1,
         IF nodes[n].type = "item" /\ nodes[n].referenceId # <<>>
            /\ ~\E k \in 1..Len(acc) : acc[k] = nodes[n].referenceId
         THEN Append(acc, nodes[n].referenceId) ELSE acc)

\* nodeIndex.get(refId) of that revision: the last item node whose
\* referenceId is refId (0: undefined).
nodeIndexGetAuto(nodes, refId) ==
  LET S == {i \in 1..Len(nodes) :
              nodes[i].type = "item" /\ nodes[i].referenceId = refId}
  IN IF S = {} THEN 0 ELSE CHOOSE i \in S : \A j \in S : j <= i

\* references.forEach(refId => ...): the reference links of node n, from
\* position k of its references on.
RECURSIVE LinksOfReferences(_, _, _, _)
LinksOfReferences(nodes, n, references, k) ==
  IF k > Len(references) THEN <<>>
  ELSE LET t == nodeIndexGetAuto(nodes, references[k])
       IN (IF t # 0 /\ nodes[t].id # nodes[n].id
              /\ nodes[t].category # nodes[n].category
           THEN <<[source |-> nodes[n].id, target |-> nodes[t].id,
                   type |-> "reference"]>>
           ELSE <<>>)
          \o LinksOfReferences(nodes, n, references, k + 1)

\* nodes.forEach(node => ...): the automatic reference links, from node n on.
RECURSIVE ReferenceLinksAuto(_, _)
ReferenceLinksAuto(nodes, n) ==
  IF n > Len(nodes) THEN <<>>
  ELSE (IF nodes[n].type # "item" \/ nodes[n].fullText = <<>> THEN <<>>
        ELSE LinksOfReferences(nodes, n,
               findReferences(nodes[n].fullText, nodeIndexKeys(nodes, 1, <<>>), 1), 1))
       \o ReferenceLinksAuto(nodes, n + 1)

\* buildGraphData() of that revision.
buildGraphDataAuto(page, centerX, centerY) ==
  LET nodes == <<[id |-> CenterId, label |-> <<"m","e">>, type |-> "center",
                  category |-> NullKey, referenceId |-> <<>>, fullText |-> <<>>,
                  hidden |-> FALSE]>>
               \o AllCategoryNodesAuto(page, 1)
  IN [nodes |-> nodes,
      links |-> AllCategoryLinksAuto(page, 1) \o ReferenceLinksAuto(nodes, 1)]

\* itemEl.dataset.graphId = id of that revision.
WriteBackAuto(page) ==
  [page EXCEPT !.blocks =
    [key \in DOMAIN page.blocks |->
      IF key \in SectionKeysAuto /\ page.blocks[key].present
      THEN [page.blocks[key] EXCEPT !.items =
             [i \in 1..Len(page.blocks[key].items) |->
               [page.blocks[key].items[i] EXCEPT
                 !.graphId = collectItemDataAuto(key, page.blocks[key].items[i], i - 1).id]]]
      ELSE page.blocks[key]]]

\* ------------------------------------------------------------------------
\* State
\* ------------------------------------------------------------------------

VARIABLES
  page,            \* the DOM content: section blocks and their content blocks
  container,       \* half the graph container's offsetWidth and offsetHeight
  graphData,       \* { nodes, links }, null before the first build
  builds,          \* how many times buildGraphData has run
  prevGraph,       \* what the previous run of buildGraphData returned
  activeSubgraph,  \* null, one category key, or an array of category keys
  linkOpacity,     \* per link: its stroke-opacity attribute, in tenths
  linkTransition,  \* per link: the d3 transition running on stroke-opacity
  hovered,         \* the node under the pointer (0: none)
  highlight,       \* the item nodes whose content block has .is-graph-highlight
  audio,           \* the AudioFeedback object
  twin,            \* a second run on the same events: its AudioFeedback object and graph
  pressed,         \* the node of the drag gesture in progress (0: none)
  mousemoving,     \* d3-drag: the pointer moved further than clickDistance
  wasDragged,      \* renderGraph's closure variable
  dragStartPos,    \* renderGraph's closure variable (NoPos: null)
  simulation,      \* the d3 force simulation: alpha, alphaTarget, running
  timers,          \* pending setTimeout callbacks, oldest first
  lastZoom,        \* the rule of the last viewport reframe applied
  activeCategory,  \* the accordion's open section (NullKey: null)
  lastEvent        \* the handler that ran last (history, not program state)

buildVars == <<page, container, graphData, builds, prevGraph>>

viewVars ==
  <<activeSubgraph, linkOpacity, linkTransition, hovered, highlight, audio, twin,
    pressed, mousemoving, wasDragged, dragStartPos, simulation, timers, lastZoom, activeCategory,
    lastEvent>>

vars == <<buildVars, viewVars>>

\* graphData = null
NoGraph == [nodes |-> <<>>, links |-> <<>>]

\* container.offsetWidth / 2 and offsetHeight / 2 of the graph container
\* when the page loads.
ContainerCenter == 300

\* The same after the window was resized.
ContainerCenters == {ContainerCenter, ContainerCenter + 10}

\* ------------------------------------------------------------------------
\* Values of the rendered graph's state
\* ------------------------------------------------------------------------

\* activeSubgraph = null / a category key / an array of category keys.
ASNull == [kind |-> "null", keys |-> <<>>]

ASKey(catKey) == [kind |-> "key", keys |-> <<catKey>>]

ASArray(categories) == [kind |-> "array", keys |-> categories]

\* JavaScript truthiness of activeSubgraph: a key is a non-empty string, and
\* every array (even an empty one) is truthy.
Truthy(as) == as.kind # "null"

\* dragStartPos = null
NoPos == <<-1, -1>>

\* No transition is scheduled or running on the link's stroke-opacity.
NoTransition == [to |-> 0, left |-> 0]

\* A transition of stroke-opacity towards `to`: created by a handler, it
\* starts on a later animation frame and replaces any earlier one on the
\* same element.  Until its frames have run the attribute still reads as
\* before; the model lets the attribute reach `to` in one step, since of
\* the values in between only their sign is ever read (the hover filter),
\* and it is that of the old value while fading out and of `to` while
\* fading in.
Transition(to) == [to |-> to, left |-> 1]

Nodes == 1..Len(graphData.nodes)

Links == 1..Len(graphData.links)

Items == {n \in Nodes : graphData.nodes[n].type = "item"}

Node(n) == graphData.nodes[n]

Link(l) == graphData.links[l]

\* d3.forceLink().id(d => d.id): link.source and link.target are replaced by
\* the node objects found in a Map from id to node, in which a repeated id
\* maps to the last node carrying it.
NodeById(id) ==
  CHOOSE n \in Nodes :
    /\ Node(n).id = id
    /\ \A m \in Nodes : Node(m).id = id => m <= n

SourceNode(l) == NodeById(Link(l).source)

TargetNode(l) == NodeById(Link(l).target)

\* The stroke-opacity the hide/show code gives a link (in tenths): spine
\* links keep 0.4, a branch link follows its target item, a reference link
\* needs both endpoints unhidden.  `ref` is 0.4 in toggleSubgraph and
\* showMultipleSubgraphs and 0.5 in the mouseout handler.
OpacityFor(nodes, l, ref) ==
  CASE Link(l).type = "branch" ->
         IF ~nodes[TargetNode(l)].hidden THEN 4 ELSE 0
    [] Link(l).type = "reference" ->
         IF ~nodes[SourceNode(l)].hidden /\ ~nodes[TargetNode(l)].hidden
         THEN ref ELSE 0
    [] OTHER -> 4

\* ------------------------------------------------------------------------
\* Visibility controller
\* ------------------------------------------------------------------------

\* A faulty variant of HideForKey that never hides an item that is shown.
HideForKey_KeepOpen(nodes, as) ==
  [n \in 1..Len(nodes) |->
    IF nodes[n].type = "item"
    THEN [nodes[n] EXCEPT !.hidden =
           IF Truthy(as) THEN nodes[n].hidden /\ nodes[n].category # as.keys[1]
           ELSE TRUE]
    ELSE nodes[n]]

\* graphData.nodes.forEach(node => { if (node.type === 'item') node.hidden = ... })
\* of toggleSubgraph: categoryKey ? node.category !== categoryKey : true.
HideForKey(nodes, as) ==
  [n \in 1..Len(nodes) |->
    IF nodes[n].type = "item"
    THEN [nodes[n] EXCEPT !.hidden =
           IF Truthy(as) THEN nodes[n].category # as.keys[1] ELSE TRUE]
    ELSE nodes[n]]

\* A faulty variant of HideForArray that looks at the first category only.
HideForArray_FirstOnly(nodes, categories) ==
  [n \in 1..Len(nodes) |->
    IF nodes[n].type = "item"
    THEN [nodes[n] EXCEPT !.hidden =
           ~(Len(categories) > 0 /\ categories[1] = nodes[n].category)]
    ELSE nodes[n]]

\* The same loop of showMultipleSubgraphs: !categories.includes(node.category).
HideForArray(nodes, categories) ==
  [n \in 1..Len(nodes) |->
    IF nodes[n].type = "item"
    THEN [nodes[n] EXCEPT !.hidden =
           ~(\E k \in 1..Len(categories) : categories[k] = nodes[n].category)]
    ELSE nodes[n]]

\* The transitions toggleSubgraph and showMultipleSubgraphs start on the
\* .link-branch and .link-reference paths; spine links are not selected.
VisibilityTransitions(nodes, trans) ==
  [l \in Links |->
    IF Link(l).type \in {"branch", "reference"}
    THEN Transition(OpacityFor(nodes, l, 4))
    ELSE trans[l]]

\* simulation.alpha(a).restart()
Reheat(sim, a) == [sim EXCEPT !.alpha = a, !.running = TRUE]

\* A faulty variant of toggleSubgraph without the test that closes the
\* category that is already open.
toggleSubgraph_NoClose(st, key) ==
  LET nodes == HideForKey(st.nodes, key)
  IN [st EXCEPT
       !.activeSubgraph = key,
       !.nodes = nodes,
       !.linkTransition = VisibilityTransitions(nodes, st.linkTransition),
       !.simulation = Reheat(st.simulation, 30),
       !.lastZoom = IF Truthy(key) THEN "visible" ELSE "fit"]

\* toggleSubgraph(categoryKey) on st, the record of the state the click
\* handlers work on (ViewState); `key` is ASNull for toggleSubgraph(null).
toggleSubgraph(st, key) ==
  LET categoryKey == IF st.activeSubgraph = key THEN ASNull ELSE key
      nodes == HideForKey(st.nodes, categoryKey)
  IN [st EXCEPT
       !.activeSubgraph = categoryKey,
       !.nodes = nodes,
       !.linkTransition = VisibilityTransitions(nodes, st.linkTransition),
       !.simulation = Reheat(st.simulation, 30),
       !.lastZoom = IF Truthy(categoryKey) THEN "visible" ELSE "fit"]

\* showMultipleSubgraphs(categoryKeys)
showMultipleSubgraphs(st, categories) ==
  LET nodes == HideForArray(st.nodes, categories)
  IN [st EXCEPT
       !.activeSubgraph =
          IF Len(categories) > 0 THEN ASArray(categories) ELSE ASNull,
       !.nodes = nodes,
       !.linkTransition = VisibilityTransitions(nodes, st.linkTransition),
       !.simulation = Reheat(st.simulation, 30)]

\* Set.add followed by Array.from: a sequence without repetitions, in
\* insertion order.
AddOnce(seq, x) ==
  IF \E k \in 1..Len(seq) : seq[k] = x THEN seq ELSE Append(seq, x)

\* A faulty variant of RelatedFrom that follows a reference link from its
\* source only.
RECURSIVE RelatedFrom_SourceOnly(_, _, _)
RelatedFrom_SourceOnly(n, l, acc) ==
  IF l > Len(graphData.links) THEN acc
  ELSE IF Link(l).type # "reference" THEN RelatedFrom_SourceOnly(n, l + 1, acc)
  ELSE RelatedFrom_SourceOnly(n, l + 1,
         IF Link(l).source = Node(n).id /\ Node(TargetNode(l)).category # NullKey
         THEN AddOnce(acc, Node(TargetNode(l)).category) ELSE acc)

\* getRelatedCategories(node): graphData.links.forEach over the reference
\* links, from link l on; the target's category when the node is the source,
\* the source's category when the node is the target.
RECURSIVE RelatedFrom(_, _, _)
RelatedFrom(n, l, acc) ==
  IF l > Len(graphData.links) THEN acc
  ELSE IF Link(l).type # "reference" THEN RelatedFrom(n, l + 1, acc)
  ELSE LET a1 == IF Link(l).source = Node(n).id /\ Node(TargetNode(l)).category # NullKey
                 THEN AddOnce(acc, Node(TargetNode(l)).category) ELSE acc
           a2 == IF Link(l).target = Node(n).id /\ Node(SourceNode(l)).category # NullKey
                 THEN AddOnce(a1, Node(SourceNode(l)).category) ELSE a1
       IN RelatedFrom(n, l + 1, a2)

getRelatedCategories(n) == RelatedFrom(n, 1, <<>>)

\* A faulty variant of reshuffleNodes that leaves the center where it is.
reshuffleNodes_KeepCenter(nodes, centerX, centerY) ==
  [n \in 1..Len(nodes) |->
    IF nodes[n].type = "center" THEN nodes[n]
    ELSE [nodes[n] EXCEPT !.fx = Unpinned, !.fy = Unpinned]]

\* reshuffleGraph(): the center is pinned at the container's center, every
\* other node is released (and moved to a random place).
reshuffleNodes(nodes, centerX, centerY) ==
  [n \in 1..Len(nodes) |->
    IF nodes[n].type = "center"
    THEN [nodes[n] EXCEPT !.fx = centerX, !.fy = centerY]
    ELSE [nodes[n] EXCEPT !.fx = Unpinned, !.fy = Unpinned]]

\* toggleSection(sectionId, true): opens the section when its block exists.
toggleSection(active, sectionId) ==
  IF page.blocks[sectionId].present THEN sectionId ELSE active

RECURSIVE toggleSections(_, _, _)
\* relatedCategories.forEach(catKey => toggleSection(catKey, true))
toggleSections(active, keys, k) ==
  IF k > Len(keys) THEN active
  ELSE toggleSections(toggleSection(active, keys[k]), keys, k + 1)

\* String.prototype.replace(pat, ''): the first occurrence is removed.
RECURSIVE RemoveFirst(_, _)
RemoveFirst(s, pat) ==
  IF Len(s) < Len(pat) THEN s
  ELSE IF SubSeq(s, 1, Len(pat)) = pat THEN SubSeq(s, Len(pat) + 1, Len(s))
  ELSE <<Head(s)>> \o RemoveFirst(Tail(s), pat)

\* The state the click handlers read and write, as one record.
ViewState ==
  [activeSubgraph |-> activeSubgraph, nodes |-> graphData.nodes,
   linkTransition |-> linkTransition, simulation |-> simulation,
   lastZoom |-> lastZoom, timers |-> timers,
   activeCategory |-> activeCategory]

\* reshuffleGraph()
reshuffleGraph(st) ==
  [st EXCEPT
    !.nodes = reshuffleNodes(st.nodes, container, container),
    !.simulation = Reheat(st.simulation, 80),
    !.timers = Append(st.timers, "reshuffle")]

\* The click handler's branch for a category node.
clickCategory(st, n) ==
  LET catKey == RemoveFirst(Node(n).id, <<"c","a","t","-">>)
      st1 == toggleSubgraph(st, ASKey(catKey))
  IN [st1 EXCEPT
       !.activeCategory = toggleSection(st.activeCategory, catKey),
       !.timers = Append(st1.timers, "category")]

\* The click handler's branch for an item node.
clickItem(st, n) ==
  LET relatedCategories == getRelatedCategories(n)
      opened == toggleSections(toggleSection(st.activeCategory, Node(n).category),
                               relatedCategories, 1)
      st1 == showMultipleSubgraphs(st, <<Node(n).category>> \o relatedCategories)
  IN [st1 EXCEPT
       !.activeCategory = opened,
       !.timers = Append(st1.timers, "item")]

\* The click handler's branch for the center node.
clickCenter(st, n) ==
  LET st1 == reshuffleGraph([st EXCEPT
                !.activeCategory = toggleSection(st.activeCategory, Intro)])
  IN IF Truthy(st1.activeSubgraph) THEN toggleSubgraph(st1, ASNull) ELSE st1

\* The node click handler past its wasDragged gate.
clickNode(st, n) ==
  CASE Node(n).type = "category" -> clickCategory(st, n)
    [] Node(n).type = "item" -> clickItem(st, n)
    [] OTHER -> clickCenter(st, n)

\* The graph a ViewState record describes.
GraphOf(st) ==
  [activeSubgraph |-> st.activeSubgraph, nodes |-> st.nodes,
   links |-> graphData.links]

\* Writes a ViewState record back to the variables (simulation apart).
Apply(st) ==
  /\ activeSubgraph' = st.activeSubgraph
  /\ graphData' = [graphData EXCEPT !.nodes = st.nodes]
  /\ linkTransition' = st.linkTransition
  /\ simulation' = st.simulation
  /\ lastZoom' = st.lastZoom
  /\ timers' = st.timers
  /\ activeCategory' = st.activeCategory

\* ------------------------------------------------------------------------
\* Pointer, animation-frame and timer events of the rendered graph
\* ------------------------------------------------------------------------

\* Positions a pointer event may report, in the coordinates of the graph.
Points == {<<300, 300>>, <<304, 300>>, <<310, 300>>}

\* Where the simulation has put a node that is pressed.
NodePoints == {<<304, 300>>}

\* Where a press may happen: on a node where the simulation has put it, or
\* on the center node where it is pinned.
PressPoints == Points \cup {<<c, c>> : c \in ContainerCenters}

\* Zoom scales k of the current zoom transform, in halves (0.5 and 1).
ZoomScales == {1, 2}

Event(type, n) == [type |-> type, node |-> n]

\* An element receives pointer events unless it is a hidden item
\* (.node-hidden and the pointer-events style set with the hidden flag).
Reachable(n) == ~Node(n).hidden

\* The link is attached to node n.
Connected(l, n) == Link(l).source = Node(n).id \/ Link(l).target = Node(n).id

\* The AudioFeedback object: `available` tells whether the browser has an
\* AudioContext constructor, `context` whether this.context is set, `drag`
\* whether this.dragOscillator is set.
AudioFeedback(available, muted) ==
  [available |-> available, enabled |-> TRUE, muted |-> muted,
   context |-> FALSE, drag |-> FALSE]

\* Sound on, sound muted (localStorage soundMuted = 'true'), no Web Audio.
AudioEnabled == AudioFeedback(TRUE, FALSE)

AudioMuted == AudioFeedback(TRUE, TRUE)

AudioUnavailable == AudioFeedback(FALSE, FALSE)

\* The result of a call on the object: the object afterwards, the value
\* returned, and whether the call returned at all (FALSE: it threw).
Returned(a, value) == [audio |-> a, value |-> value, ok |-> TRUE]

Threw(a) == [audio |-> a, value |-> FALSE, ok |-> FALSE]

\* A faulty variant of ensureContext without the try / catch around the
\* construction of the AudioContext.
ensureContext_NoCatch(a) ==
  IF ~a.enabled \/ a.muted THEN Returned(a, FALSE)
  ELSE IF ~a.context
  THEN (IF a.available THEN Returned([a EXCEPT !.context = TRUE], TRUE)
        ELSE Threw(a))
  ELSE Returned(a, TRUE)

\* ensureContext()
ensureContext(a) ==
  IF ~a.enabled \/ a.muted THEN Returned(a, FALSE)
  ELSE IF ~a.context
  THEN (IF a.available THEN Returned([a EXCEPT !.context = TRUE], TRUE)
        ELSE Returned([a EXCEPT !.enabled = FALSE], FALSE))
  ELSE Returned(a, TRUE)

\* playHover(), playCardHover(), playClick(): nothing but oscillators
\* started once ensureContext() has returned true.
play(a) == ensureContext(a)

\* stopDrag()
stopDrag(a) == Returned([a EXCEPT !.drag = FALSE], TRUE)

\* startDrag()
startDrag(a) ==
  LET r == ensureContext(a)
  IN IF ~r.ok \/ ~r.value THEN r
     ELSE Returned([r.audio EXCEPT !.drag = TRUE], TRUE)

\* updateDrag(velocity)
updateDrag(a) == IF ~a.drag THEN Returned(a, FALSE) ELSE ensureContext(a)

\* The audio calls of the drag handler for a move that crosses the drag
\* threshold (`crossing`) or not, wasDragged being set afterwards or not.
dragSounds(a, crossing, dragged) ==
  LET r == IF crossing THEN startDrag(a) ELSE Returned(a, TRUE)
  IN IF r.ok /\ dragged THEN updateDrag(r.audio) ELSE r

\* toggleMute()
toggleMute(a) == [a EXCEPT !.muted = ~a.muted]

\* What the graph is to a user: what is open, the nodes with their hidden
\* flags and pins, and the links.
GraphState(active, gd) ==
  [activeSubgraph |-> active, nodes |-> gd.nodes, links |-> gd.links]

\* domIndex.get(id): domIndex.set(node.id, itemEl) runs once per item node in
\* push order, so a repeated id maps to the content block of the last item
\* node carrying it.  A content block is named by the item node made from
\* it; 0 stands for undefined.
domIndexGet(nodes, id) == nodeIndexGet(nodes, id)

\* A faulty variant of highlightDomItem that does not remove the class from
\* the other blocks first.
highlightDomItem_NoClear(marked, nodes, n) ==
  IF n = 0 \/ nodes[n].type # "item" THEN marked
  ELSE LET el == domIndexGet(nodes, nodes[n].id)
       IN IF el # 0 THEN marked \cup {el} ELSE marked

\* highlightDomItem(node), node n or null (0): the blocks that carry the
\* class afterwards, `marked` being those that carried it before.
highlightDomItem(marked, nodes, n) ==
  IF n = 0 \/ nodes[n].type # "item" THEN {}
  ELSE LET el == domIndexGet(nodes, nodes[n].id)
       IN IF el # 0 THEN {el} ELSE {}

\* mouseover on node n.
MouseOver(n) ==
  /\ hovered = 0 /\ pressed = 0
  /\ Reachable(n)
  /\ hovered' = n
  /\ LET r == play(audio)
         r2 == play(twin.audio)
     IN /\ audio' = r.audio
        /\ twin' = [twin EXCEPT !.audio = r2.audio]
        /\ IF r.ok
           THEN /\ linkTransition' =
                     [l \in Links |->
                       IF Connected(l, n) /\ linkOpacity[l] > 0
                       THEN Transition(8) ELSE linkTransition[l]]
                /\ highlight' = IF Node(n).type = "item"
                                THEN highlightDomItem(highlight, graphData.nodes, n)
                                ELSE highlight
           ELSE UNCHANGED <<linkTransition, highlight>>
  /\ lastEvent' = Event("other", 0)
  /\ UNCHANGED <<buildVars, activeSubgraph, linkOpacity, pressed, mousemoving,
                 wasDragged, dragStartPos, simulation, timers, lastZoom,
                 activeCategory>>

\* mouseout of node n: every link goes back to its resting opacity.
MouseOut(n) ==
  /\ hovered = n /\ pressed = 0
  /\ hovered' = 0
  /\ linkTransition' =
       [l \in Links |-> Transition(OpacityFor(graphData.nodes, l, 5))]
  /\ highlight' = highlightDomItem(highlight, graphData.nodes, 0)
  /\ lastEvent' = Event("other", 0)
  /\ UNCHANGED <<audio, twin>>
  /\ UNCHANGED <<buildVars, activeSubgraph, linkOpacity, pressed, mousemoving,
                 wasDragged, dragStartPos, simulation, timers, lastZoom,
                 activeCategory>>

\* d3.drag 'start' on node n (mousedown): the node is pinned where it is.
\* The center node is where it is pinned; any other node is where the
\* simulation has put it.
MouseDown(n, pos) ==
  /\ hovered = n /\ pressed = 0
  /\ Reachable(n)
  /\ Len(timers) < MaxTimers
  /\ pos = IF Node(n).type = "center" THEN <<Node(n).fx, Node(n).fy>>
           ELSE CHOOSE q \in NodePoints : TRUE
  /\ pressed' = n
  /\ mousemoving' = FALSE
  /\ simulation' = [simulation EXCEPT !.alphaTarget = 20, !.running = TRUE]
  /\ graphData' = [graphData EXCEPT !.nodes[n].fx = pos[1], !.nodes[n].fy = pos[2]]
  /\ dragStartPos' = pos
  /\ wasDragged' = FALSE
  /\ lastEvent' = Event("other", 0)
  /\ UNCHANGED <<page, container, builds, prevGraph, activeSubgraph, linkOpacity,
                 linkTransition, hovered, highlight, timers, lastZoom, activeCategory>>
  /\ UNCHANGED audio
  /\ twin' = [twin EXCEPT !.graph = GraphState(activeSubgraph', graphData')]

Dist2(p, q) == (p[1] - q[1]) * (p[1] - q[1]) + (p[2] - q[2]) * (p[2] - q[2])

\* d3.drag 'drag' (mousemove while pressed): the pin follows the pointer.
\* wasDragged compares the displacement in graph coordinates with 5;
\* d3-drag compares it in client pixels (graph coordinates times the zoom
\* scale k = scale2 / 2) with clickDistance 4.
MouseMove(pos, scale2) ==
  /\ pressed # 0
  /\ graphData' = [graphData EXCEPT !.nodes[pressed].fx = pos[1],
                                    !.nodes[pressed].fy = pos[2]]
  /\ wasDragged' = (wasDragged \/ Dist2(pos, dragStartPos) > 25)
  /\ mousemoving' = (mousemoving \/ Dist2(pos, dragStartPos) * scale2 * scale2 > 64)
  /\ LET crossing == Dist2(pos, dragStartPos) > 25 /\ ~wasDragged
     IN /\ audio' = dragSounds(audio, crossing, wasDragged').audio
        /\ twin' = [audio |-> dragSounds(twin.audio, crossing, wasDragged').audio,
                    graph |-> GraphState(activeSubgraph, graphData')]
  /\ lastEvent' = [type |-> "drag", node |-> pressed, at |-> pos]
  /\ UNCHANGED <<page, container, builds, prevGraph, activeSubgraph, linkOpacity,
                 linkTransition, hovered, highlight, pressed, dragStartPos, simulation,
                 timers, lastZoom, activeCategory>>

\* A faulty variant of dragEnd that releases the center node as well.
dragEnd_UnpinAll(st, n) ==
  [st EXCEPT
    !.simulation = [st.simulation EXCEPT !.alphaTarget = 0],
    !.nodes = [st.nodes EXCEPT ![n].fx = Unpinned, ![n].fy = Unpinned]]

\* A faulty variant of dragEnd that releases no node.
dragEnd_KeepPin(st, n) ==
  [st EXCEPT !.simulation = [st.simulation EXCEPT !.alphaTarget = 0]]

\* d3.drag 'end' on mouseup: every node but the center is released.
dragEnd(st, n) ==
  [st EXCEPT
    !.simulation = [st.simulation EXCEPT !.alphaTarget = 0],
    !.nodes = IF st.nodes[n].type # "center"
              THEN [st.nodes EXCEPT ![n].fx = Unpinned, ![n].fy = Unpinned]
              ELSE st.nodes]

\* mouseup on the pressed node: the drag 'end' handler, then, unless d3-drag
\* suppresses it (the pointer moved further than clickDistance), the click
\* handler, which returns early when wasDragged is set.
MouseUp ==
  /\ pressed # 0
  /\ LET n == pressed
         st == dragEnd(ViewState, n)
         stopped == stopDrag(audio).audio
         stopped2 == stopDrag(twin.audio).audio
         r == play(stopped)
         r2 == play(stopped2)
     IN IF mousemoving
        THEN /\ Apply(st)
             /\ audio' = stopped
             /\ twin' = [audio |-> stopped2, graph |-> GraphOf(st)]
             /\ wasDragged' = wasDragged
             /\ lastEvent' = Event("dragend", n)
        ELSE IF wasDragged
        THEN /\ Apply(st)
             /\ audio' = stopped
             /\ twin' = [audio |-> stopped2, graph |-> GraphOf(st)]
             /\ wasDragged' = FALSE
             /\ lastEvent' = Event("swallowed", n)
        ELSE /\ audio' = r.audio
             /\ twin' = [audio |-> r2.audio,
                         graph |-> GraphOf(IF r2.ok THEN clickNode(st, n) ELSE st)]
             /\ wasDragged' = wasDragged
             /\ IF r.ok
                THEN /\ Apply(clickNode(st, n))
                     /\ lastEvent' = Event("click", n)
                ELSE /\ Apply(st)
                     /\ lastEvent' = Event("aborted", n)
  /\ pressed' = 0
  /\ dragStartPos' = NoPos
  /\ UNCHANGED <<page, container, builds, prevGraph, linkOpacity, hovered, highlight, mousemoving>>

\* A faulty variant of hideBranchAndReferenceLinks that forgets the
\* reference links.
hideBranchAndReferenceLinks_BranchOnly(trans) ==
  [l \in Links |->
    IF Link(l).type = "branch" THEN Transition(0) ELSE trans[l]]

\* linksGroup.selectAll('.link-branch, .link-reference').transition()
\*   .attr('stroke-opacity', 0) of the background click handler.
hideBranchAndReferenceLinks(trans) ==
  [l \in Links |->
    IF Link(l).type \in {"branch", "reference"} THEN Transition(0) ELSE trans[l]]

\* click on the bare svg background.
BackgroundClick ==
  /\ hovered = 0 /\ pressed = 0
  /\ IF Truthy(activeSubgraph)
     THEN /\ activeSubgraph' = ASNull
          /\ graphData' = [graphData EXCEPT !.nodes = HideForKey(graphData.nodes, ASNull)]
          /\ linkTransition' = hideBranchAndReferenceLinks(linkTransition)
          /\ simulation' = Reheat(simulation, 15)
          /\ lastZoom' = "fit"
     ELSE UNCHANGED <<activeSubgraph, graphData, linkTransition, simulation, lastZoom>>
  /\ activeCategory' = NullKey
  /\ lastEvent' = Event("background", 0)
  /\ UNCHANGED <<page, container, builds, prevGraph, linkOpacity, hovered, highlight, pressed,
                 mousemoving, wasDragged, dragStartPos, timers>>
  /\ UNCHANGED audio
  /\ twin' = [twin EXCEPT !.graph = GraphState(activeSubgraph', graphData')]

\* A faulty variant of repinCenter that lays the graph out anew: the center
\* is pinned at the new center and every item is hidden as after a build.
repinCenter_Relayout(nodes, c) ==
  [n \in 1..Len(nodes) |->
    IF nodes[n].id = CenterId THEN [nodes[n] EXCEPT !.fx = c, !.fy = c]
    ELSE IF nodes[n].type = "item" THEN [nodes[n] EXCEPT !.hidden = TRUE]
    ELSE nodes[n]]

\* The resize handler's write to graphData: the node found by
\* graphData.nodes.find(n => n.id === 'center') is pinned at the new center.
repinCenter(nodes, c) ==
  LET S == {n \in 1..Len(nodes) : nodes[n].id = CenterId}
  IN IF S = {} THEN nodes
     ELSE LET first == CHOOSE n \in S : \A m \in S : n <= m
          IN [nodes EXCEPT ![first].fx = c, ![first].fy = c]

\* The window's resize handler: the container's center has moved to c.
Resize(c) ==
  /\ c # container
  /\ container' = c
  /\ graphData' = [graphData EXCEPT !.nodes = repinCenter(graphData.nodes, c)]
  /\ simulation' = Reheat(simulation, 30)
  /\ lastEvent' = Event("resize", 0)
  /\ UNCHANGED <<page, builds, prevGraph, activeSubgraph, linkOpacity,
                 linkTransition, hovered, highlight, pressed, mousemoving, wasDragged,
                 dragStartPos, timers, lastZoom, activeCategory>>
  /\ UNCHANGED audio
  /\ twin' = [twin EXCEPT !.graph = GraphState(activeSubgraph', graphData')]

\* A faulty variant of recolorNodes that re-renders the shown nodes only
\* and drops the hidden ones.
recolorNodes_DropHidden(nodes, theme) ==
  SelectSeq([n \in 1..Len(nodes) |->
              IF nodes[n].type = "center"
              THEN [nodes[n] EXCEPT !.color = COLORS(theme).center]
              ELSE IF nodes[n].type = "item"
              THEN [nodes[n] EXCEPT !.color = COLORS(theme).node]
              ELSE nodes[n]],
            LAMBDA node : ~node.hidden)

\* A faulty variant of recolorNodes that sets the nodes up as a rebuild
\* does: every item hidden, every node but the center released.
recolorNodes_Rebuild(nodes, theme) ==
  [n \in 1..Len(nodes) |->
    IF nodes[n].type = "center"
    THEN [nodes[n] EXCEPT !.color = COLORS(theme).center]
    ELSE IF nodes[n].type = "item"
    THEN [nodes[n] EXCEPT !.color = COLORS(theme).node, !.hidden = TRUE,
                          !.fx = Unpinned, !.fy = Unpinned]
    ELSE [nodes[n] EXCEPT !.fx = Unpinned, !.fy = Unpinned]]

\* setTheme's writes to graphData.nodes: the center node and the item nodes
\* take the theme's colors.
recolorNodes(nodes, theme) ==
  [n \in 1..Len(nodes) |->
    IF nodes[n].type = "center"
    THEN [nodes[n] EXCEPT !.color = COLORS(theme).center]
    ELSE IF nodes[n].type = "item"
    THEN [nodes[n] EXCEPT !.color = COLORS(theme).node]
    ELSE nodes[n]]

\* A click on the theme toggle: setTheme(newTheme) with the other theme.
SetTheme(theme) ==
  /\ hovered = 0 /\ pressed = 0
  /\ Node(1).color # COLORS(theme).center
  /\ LET r == play(audio)
         r2 == play(twin.audio)
         recolored == [graphData EXCEPT !.nodes = recolorNodes(graphData.nodes, theme)]
     IN /\ audio' = r.audio
        /\ graphData' = IF r.ok THEN recolored ELSE graphData
        /\ twin' = [audio |-> r2.audio,
                    graph |-> GraphState(activeSubgraph,
                                         IF r2.ok THEN recolored ELSE graphData)]
  /\ lastEvent' = Event("theme", 0)
  /\ UNCHANGED <<page, container, builds, prevGraph, activeSubgraph, linkOpacity,
                 linkTransition, hovered, highlight, pressed, mousemoving, wasDragged,
                 dragStartPos, simulation, timers, lastZoom, activeCategory>>

\* The values of alpha the model tells apart, in hundredths: the values the
\* handlers set (1, 0.8, 0.3, 0.15), the alphaTarget of a drag (0.2) and the
\* rest below alphaMin (0).
AlphaLevels == {0, 15, 20, 30, 80, 100}

\* Ticks of the running simulation: alpha moves towards alphaTarget, and the
\* simulation stops once alpha is below alphaMin.
Tick(a) ==
  /\ simulation.running
  /\ a \in AlphaLevels
  /\ \/ simulation.alphaTarget <= a /\ a < simulation.alpha
     \/ simulation.alpha < a /\ a <= simulation.alphaTarget
  /\ simulation' = [simulation EXCEPT !.alpha = a, !.running = (a > 0)]
  /\ lastEvent' = Event("other", 0)
  /\ UNCHANGED <<audio, twin>>
  /\ UNCHANGED <<buildVars, activeSubgraph, linkOpacity, linkTransition, hovered, highlight,
                 pressed, mousemoving, wasDragged, dragStartPos, timers, lastZoom,
                 activeCategory>>

\* A click on the mute button, in both runs: toggleMute(), then a click
\* sound when the sound has come back on.
ToggleMute ==
  /\ hovered = 0 /\ pressed = 0
  /\ LET a == toggleMute(audio)
         a2 == toggleMute(twin.audio)
     IN /\ audio' = IF ~a.muted THEN play(a).audio ELSE a
        /\ twin' = [twin EXCEPT !.audio = IF ~a2.muted THEN play(a2).audio ELSE a2]
  /\ lastEvent' = Event("other", 0)
  /\ UNCHANGED <<buildVars, activeSubgraph, linkOpacity, linkTransition, hovered,
                 highlight, pressed, mousemoving, wasDragged, dragStartPos,
                 simulation, timers, lastZoom, activeCategory>>

\* The animation frames of d3's timer that complete the pending
\* stroke-opacity transitions: each leaves its target value.
TransitionFrame ==
  /\ \E l \in Links : linkTransition[l].left > 0
  /\ linkOpacity' =
       [l \in Links |->
         IF linkTransition[l].left > 0 THEN linkTransition[l].to
         ELSE linkOpacity[l]]
  /\ linkTransition' = [l \in Links |-> NoTransition]
  /\ lastEvent' = Event("other", 0)
  /\ UNCHANGED <<audio, twin>>
  /\ UNCHANGED <<buildVars, activeSubgraph, hovered, highlight, pressed, mousemoving,
                 wasDragged, dragStartPos, simulation, timers, lastZoom,
                 activeCategory>>

\* The delay of a setTimeout callback, in milliseconds.
TimerDelay(kind) == IF kind = "reshuffle" THEN 150 ELSE 450

\* A pending setTimeout callback runs: the deferred reframe.  A timer set
\* earlier with a delay no longer than this one's has already run.
FireTimer(i) ==
  /\ i \in 1..Len(timers)
  /\ \A j \in 1..(i - 1) : TimerDelay(timers[j]) > TimerDelay(timers[i])
  /\ lastZoom' =
       CASE timers[i] = "category" ->
              IF Truthy(activeSubgraph) THEN "visible" ELSE "fit"
         [] timers[i] = "item" -> "visible"
         [] OTHER -> "fit"
  /\ timers' = [k \in 1..(Len(timers) - 1) |-> IF k < i THEN timers[k] ELSE timers[k + 1]]
  /\ lastEvent' = Event("other", 0)
  /\ UNCHANGED <<audio, twin>>
  /\ UNCHANGED <<buildVars, activeSubgraph, linkOpacity, linkTransition, hovered, highlight,
                 pressed, mousemoving, wasDragged, dragStartPos, simulation,
                 activeCategory>>

\* ------------------------------------------------------------------------
\* Pages of the builder specification
\* ------------------------------------------------------------------------

\* Content blocks an author may write: derived and explicit identities,
\* labels that slugify to the same or to the empty slug, link lists with
\* resolvable, unresolvable and self targets.
ItemChoices ==
  { ItemEl(<<>>, <<"A","b">>, <<>>),
    ItemEl(<<"x">>, <<"a"," ","b">>, <<"n","o","p","e">>),
    ItemEl(<<>>, <<" ","-"," ">>, <<"x",","," ","w","o","r","k","-","a","b","-","0">>),
    ItemEl(<<"w","o","r","k","-","a","b","-","0">>, <<"b">>, <<"w","o","r","k","-","a","b","-","0">>),
    ItemEl(<<"c","e","n","t","e","r">>, <<"A","b">>, <<" ","x"," ">>) }

ItemLists(max) == UNION {[1..n -> ItemChoices] : n \in 0..max}

\* Every section block may be missing; work and projects carry content.
BuildPages(max) ==
  { [blocks |-> (Work :> w) @@ (Projects :> p) @@ (Media :> m) @@ (Contact :> c)
                @@ (Intro :> Block(<<>>))] :
      w \in {NoBlock} \cup {Block(l) : l \in ItemLists(max)},
      p \in {NoBlock} \cup {Block(l) : l \in ItemLists(max)},
      m \in {NoBlock, Block(<<>>)},
      c \in {NoBlock, Block(<<>>)} }

\* The module-level state before initGraph has rendered anything.
Unrendered ==
  /\ activeSubgraph = ASNull
  /\ linkOpacity = <<>>
  /\ linkTransition = <<>>
  /\ hovered = 0
  /\ highlight = {}
  /\ audio = AudioEnabled
  /\ twin = [audio |-> AudioEnabled, graph |-> GraphState(activeSubgraph, graphData)]
  /\ pressed = 0
  /\ mousemoving = FALSE
  /\ wasDragged = FALSE
  /\ dragStartPos = NoPos
  /\ simulation = [alpha |-> 0, alphaTarget |-> 0, running |-> FALSE]
  /\ timers = <<>>
  /\ lastZoom = "none"
  /\ activeCategory = NullKey
  /\ lastEvent = Event("load", 0)

InitBuild ==
  /\ page \in BuildPages(MaxItems)
  /\ graphData = NoGraph
  /\ builds = 0
  /\ prevGraph = NoGraph
  /\ container = ContainerCenter
  /\ Unrendered

\* One call of buildGraphData(): returns the graph and leaves every resolved
\* identity on its content block.
BuildGraphData ==
  /\ builds < MaxBuilds
  /\ graphData' = buildGraphData(page, container, container)
  /\ page' = WriteBack(page)
  /\ prevGraph' = graphData
  /\ builds' = builds + 1
  /\ UNCHANGED <<container, viewVars>>

NextBuild == BuildGraphData

SpecBuild == InitBuild /\ [][NextBuild]_vars

\* ------------------------------------------------------------------------
\* Pages of the builder with automatic reference detection
\* ------------------------------------------------------------------------

\* Content blocks: a one-word label (token abx), a text that names abx as a
\* whole word, a text that holds abx inside a longer word, a block whose
\* token abx is given by data-graph-ref, a block whose data-graph-ref a.x
\* holds a dot, and two blocks that name nothing.
AutoChoices ==
  { AutoEl(<<>>, <<>>, <<"A","b","x">>),
    AutoEl(<<>>, <<>>, <<"o","n"," ","a","b","x">>),
    AutoEl(<<>>, <<>>, <<"t","a","b","x">>),
    AutoEl(<<>>, <<"a","b","x">>, <<"x","a">>),
    AutoEl(<<>>, <<"a",".","x">>, <<"b","a">>),
    AutoEl(<<>>, <<>>, <<"b","a">>),
    AutoEl(<<>>, <<>>, <<"x","b">>) }

AutoLists(max) == UNION {[1..n -> AutoChoices] : n \in 0..max}

\* Up to MaxItems + 1 work blocks and MaxItems opensource blocks, a talks
\* section that is missing or empty, no contact section.
AutoPages(max) ==
  { [blocks |-> (Work :> Block(w)) @@ (Opensource :> Block(o)) @@ (Talks :> t)
                @@ (Contact :> NoBlock)] :
      w \in AutoLists(max + 1),
      o \in AutoLists(max),
      t \in {NoBlock, Block(<<>>)} }

InitAuto ==
  /\ page \in AutoPages(MaxItems)
  /\ graphData = NoGraph
  /\ builds = 0
  /\ prevGraph = NoGraph
  /\ container = ContainerCenter
  /\ Unrendered

\* One call of that revision's buildGraphData().
BuildGraphDataAuto ==
  /\ builds < MaxBuilds
  /\ graphData' = buildGraphDataAuto(page, container, container)
  /\ page' = WriteBackAuto(page)
  /\ prevGraph' = graphData
  /\ builds' = builds + 1
  /\ UNCHANGED <<container, viewVars>>

NextAuto == BuildGraphDataAuto

SpecAuto == InitAuto /\ [][NextAuto]_vars

\* ------------------------------------------------------------------------
\* The rendered graph: clicks, hover, transitions and deferred reframes
\* ------------------------------------------------------------------------

\* A page with a cross-reference between two categories (work-ab-0 -> p1),
\* an item without references, an empty section and a missing one.
PageA ==
  [blocks |->
    (Work :> Block(<<ItemEl(<<>>, <<"A","b">>, <<"p","1">>),
                     ItemEl(<<>>, <<"b">>, <<>>)>>))
    @@ (Projects :> Block(<<ItemEl(<<"p","1">>, <<"x">>, <<>>)>>))
    @@ (Media :> Block(<<>>))
    @@ (Contact :> NoBlock)
    @@ (Intro :> Block(<<>>))]

\* A page with a chain of references over three categories
\* (w1 -> p1 -> m1) and no intro section.
PageB ==
  [blocks |->
    (Work :> Block(<<ItemEl(<<"w","1">>, <<"a">>, <<"p","1">>)>>))
    @@ (Projects :> Block(<<ItemEl(<<"p","1">>, <<"b">>, <<"m","1",","," ","z">>)>>))
    @@ (Media :> Block(<<ItemEl(<<"m","1">>, <<"c">>, <<>>)>>))
    @@ (Contact :> NoBlock)
    @@ (Intro :> NoBlock)]

Pages == {PageA, PageB}

\* A page whose two work blocks carry the same explicit data-graph-id.
PageC ==
  [blocks |->
    (Work :> Block(<<ItemEl(<<"x">>, <<"a">>, <<>>),
                     ItemEl(<<"x">>, <<"b">>, <<>>)>>))
    @@ (Projects :> Block(<<>>))
    @@ (Media :> NoBlock)
    @@ (Contact :> NoBlock)
    @@ (Intro :> Block(<<>>))]

\* The state initGraph leaves: the graph built from the page and rendered
\* (renderGraph), the simulation started, nothing open.
RenderedWith(p, a, a2) ==
  /\ page = WriteBack(p)
  /\ graphData = buildGraphData(p, ContainerCenter, ContainerCenter)
  /\ builds = 1
  /\ prevGraph = NoGraph
  /\ container = ContainerCenter
  /\ activeSubgraph = ASNull
  /\ linkOpacity = [l \in Links |-> IF Link(l).type = "spine" THEN 4 ELSE 0]
  /\ linkTransition = [l \in Links |-> NoTransition]
  /\ hovered = 0
  /\ highlight = {}
  /\ audio = a
  /\ twin = [audio |-> a2, graph |-> GraphState(activeSubgraph, graphData)]
  /\ pressed = 0
  /\ mousemoving = FALSE
  /\ wasDragged = FALSE
  /\ dragStartPos = NoPos
  /\ simulation = [alpha |-> 100, alphaTarget |-> 0, running |-> TRUE]
  /\ timers = <<>>
  /\ lastZoom = "none"
  /\ activeCategory = NullKey
  /\ lastEvent = Event("init", 0)

\* The same with the sound on in both runs.
Rendered(p) == RenderedWith(p, AudioEnabled, AudioEnabled)

Init == \E p \in Pages : Rendered(p)

\* Clicks without pointer movement, hover, background clicks, animation
\* frames and timers.
Next ==
  \/ \E n \in Nodes : MouseOver(n)
  \/ \E n \in Nodes : MouseOut(n)
  \/ \E n \in Nodes : \E pos \in PressPoints : MouseDown(n, pos)
  \/ MouseUp
  \/ BackgroundClick
  \/ TransitionFrame
  \/ \E i \in 1..MaxTimers : FireTimer(i)

Spec == Init /\ [][Next]_vars

\* Gestures with pointer movement between press and release: drags, and
\* clicks during which the pointer moved a little.  The fades of the links
\* are left pending: no handler of a gesture reads a link's opacity but
\* mouseover.
NextDrag ==
  \/ \E n \in Nodes : MouseOver(n)
  \/ \E n \in Nodes : MouseOut(n)
  \/ \E n \in Nodes : \E pos \in PressPoints : MouseDown(n, pos)
  \/ \E pos \in Points : \E scale2 \in ZoomScales : MouseMove(pos, scale2)
  \/ MouseUp
  \/ BackgroundClick
  \/ \E i \in 1..MaxTimers : FireTimer(i)
  \/ \E c \in ContainerCenters : Resize(c)

SpecDrag == Init /\ [][NextDrag]_vars

\* Gestures, background clicks, timers and resizes, with changes of the
\* theme between them.
NextTheme ==
  \/ NextDrag
  \/ \E theme \in Themes : SetTheme(theme)

SpecTheme == Init /\ [][NextTheme]_vars

\* The same events on the pages above and on the page with a repeated id.
InitHover == \E p \in Pages \cup {PageC} : Rendered(p)

SpecHover == InitHover /\ [][Next]_vars

\* Two runs whose AudioFeedback objects start in different states.
AudioPairs ==
  {<<AudioEnabled, AudioMuted>>, <<AudioEnabled, AudioUnavailable>>,
   <<AudioMuted, AudioUnavailable>>}

InitAudio == \E p \in Pages : \E pair \in AudioPairs : RenderedWith(p, pair[1], pair[2])

\* Hover, clicks, drags and background clicks, and clicks on the mute
\* button.
NextAudio ==
  \/ \E n \in Nodes : MouseOver(n)
  \/ \E n \in Nodes : MouseOut(n)
  \/ \E n \in Nodes : \E pos \in PressPoints : MouseDown(n, pos)
  \/ \E pos \in Points : \E scale2 \in ZoomScales : MouseMove(pos, scale2)
  \/ MouseUp
  \/ BackgroundClick
  \/ ToggleMute

SpecAudio == InitAudio /\ [][NextAudio]_vars

\* Clicks and background clicks between the ticks of the simulation.
NextTick ==
  \/ \E n \in Nodes : MouseOver(n)
  \/ \E n \in Nodes : MouseOut(n)
  \/ \E n \in Nodes : \E pos \in PressPoints : MouseDown(n, pos)
  \/ MouseUp
  \/ BackgroundClick
  \/ \E i \in 1..MaxTimers : FireTimer(i)
  \/ \E a \in AlphaLevels : Tick(a)

SpecTick == Init /\ [][NextTick]_vars

\* ------------------------------------------------------------------------
\* Viewport reframes: zoomToVisibleNodes and zoomToFit on laid-out graphs
\* ------------------------------------------------------------------------

\* A fraction n / d with d > 0: the scale and the translation of a zoom
\* transform are quotients of pixel counts.
Rat(n, d) == <<n, d>>

RatLess(a, b) == a[1] * b[2] < b[1] * a[2]

RatEq(a, b) == a[1] * b[2] = b[1] * a[2]

\* Math.min on two fractions
RatMin(a, b) == IF RatLess(b, a) THEN b ELSE a

\* Math.min / Math.max over the coordinates of the selected nodes
SetMin(S) == CHOOSE x \in S : \A y \in S : x <= y

SetMax(S) == CHOOSE x \in S : \A y \in S : y <= x

\* const padding = 100 (zoomToVisibleNodes) and 80 (zoomToFit)
VisiblePadding == 100

FitPadding == 80

\* The cap on the scale: 1.5 (zoomToVisibleNodes) and 1 (zoomToFit)
VisibleMaxScale == Rat(3, 2)

FitMaxScale == Rat(1, 1)

\* d3.zoomIdentity, the transform before any reframe
zoomIdentity == [rule |-> "none", k |-> Rat(1, 1), x |-> Rat(0, 1), y |-> Rat(0, 1)]

\* A faulty variant of visibleNodes that also frames the hidden items.
visibleNodes_AnyItem(nodes) == 1..Len(nodes)

\* graphData.nodes.filter(n => n.type === 'center' || n.type === 'category'
\*                             || (n.type === 'item' && !n.hidden))
visibleNodes(nodes) ==
  {n \in 1..Len(nodes) :
     \/ nodes[n].type = "center"
     \/ nodes[n].type = "category"
     \/ nodes[n].type = "item" /\ ~nodes[n].hidden}

\* graphData.nodes.filter(n => n.type === 'center' || n.type === 'category')
mainNodes(nodes) ==
  {n \in 1..Len(nodes) : nodes[n].type = "center" \/ nodes[n].type = "category"}

\* The part the two functions share: the bounding box of the selected nodes
\* grown by the padding, the scale that fits it into the container up to the
\* cap, and the translation that centers it.
frame(rule, nodes, selected, padding, maxScale, containerWidth, containerHeight) ==
  LET minX == SetMin({nodes[n].x : n \in selected}) - padding
      maxX == SetMax({nodes[n].x : n \in selected}) + padding
      minY == SetMin({nodes[n].y : n \in selected}) - padding
      maxY == SetMax({nodes[n].y : n \in selected}) + padding
      width == maxX - minX
      height == maxY - minY
      scale == RatMin(RatMin(Rat(containerWidth, width), Rat(containerHeight, height)),
                      maxScale)
      \* containerWidth / 2 - ((minX + maxX) / 2) * scale
      translateX == Rat(containerWidth * scale[2] - (minX + maxX) * scale[1], 2 * scale[2])
      translateY == Rat(containerHeight * scale[2] - (minY + maxY) * scale[1], 2 * scale[2])
  IN [rule |-> rule, k |-> scale, x |-> translateX, y |-> translateY]

\* zoomToVisibleNodes(): the transform it applies (`current` when it returns
\* early).
zoomToVisibleNodes(current, nodes, containerWidth, containerHeight) ==
  IF visibleNodes(nodes) = {} THEN current
  ELSE frame("visible", nodes, visibleNodes(nodes), VisiblePadding, VisibleMaxScale,
             containerWidth, containerHeight)

\* zoomToFit(); the center node is in every graph, so mainNodes is not empty.
zoomToFit(nodes, containerWidth, containerHeight) ==
  frame("fit", nodes, mainNodes(nodes), FitPadding, FitMaxScale,
        containerWidth, containerHeight)

\* Where the simulation may have put a node other than the center: next to
\* the center, far to the right of it, far below it.
Spots == {<<250, 300>>, <<900, 300>>, <<300, 1000>>}

\* The layouts of a graph: the center where it is pinned, every other node
\* on one of the spots.
Layouts(nodes) ==
  {layout \in [1..Len(nodes) -> Spots \cup {<<ContainerCenter, ContainerCenter>>}] :
     \A n \in 1..Len(nodes) :
        IF nodes[n].type = "center" THEN layout[n] = <<nodes[n].fx, nodes[n].fy>>
        ELSE layout[n] \in Spots}

\* node.x and node.y as the simulation has set them
Place(nodes, layout) ==
  [n \in 1..Len(nodes) |-> nodes[n] @@ [x |-> layout[n][1], y |-> layout[n][2]]]

\* What may be open when a reframe runs, and the hidden flags that go with it.
OpenStates(p) ==
  {ASNull, ASArray(<<Work, Projects>>)}
    \cup {ASKey(k) : k \in {c \in SectionKeys : p.blocks[c].present}}

HideFor(nodes, as) ==
  IF as.kind = "array" THEN HideForArray(nodes, as.keys) ELSE HideForKey(nodes, as)

\* The rendered graph with something open and its nodes laid out.
InitZoom ==
  \E p \in Pages : \E as \in OpenStates(p) :
  \E layout \in Layouts(buildGraphData(p, ContainerCenter, ContainerCenter).nodes) :
    LET gd == buildGraphData(p, ContainerCenter, ContainerCenter)
    IN /\ page = WriteBack(p)
       /\ graphData = [gd EXCEPT !.nodes = Place(HideFor(gd.nodes, as), layout)]
       /\ builds = 1
       /\ prevGraph = NoGraph
       /\ container = ContainerCenter
       /\ activeSubgraph = as
       /\ linkOpacity = [l \in Links |-> OpacityFor(graphData.nodes, l, 4)]
       /\ linkTransition = [l \in Links |-> NoTransition]
       /\ hovered = 0
       /\ highlight = {}
       /\ audio = AudioEnabled
       /\ twin = [audio |-> AudioEnabled, graph |-> GraphState(activeSubgraph, graphData)]
       /\ pressed = 0
       /\ mousemoving = FALSE
       /\ wasDragged = FALSE
       /\ dragStartPos = NoPos
       /\ simulation = [alpha |-> 30, alphaTarget |-> 0, running |-> TRUE]
       /\ timers = <<>>
       /\ lastZoom = zoomIdentity
       /\ activeCategory = NullKey
       /\ lastEvent = Event("init", 0)

\* A call of zoomToVisibleNodes(); lastZoom holds the transform applied.
ZoomToVisibleNodes ==
  /\ lastZoom' = zoomToVisibleNodes(lastZoom, graphData.nodes, 2 * container, 2 * container)
  /\ lastEvent' = Event("zoom", 0)
  /\ UNCHANGED <<buildVars, activeSubgraph, linkOpacity, linkTransition, hovered, highlight,
                 audio, twin, pressed, mousemoving, wasDragged, dragStartPos, simulation,
                 timers, activeCategory>>

\* A call of zoomToFit()
ZoomToFit ==
  /\ lastZoom' = zoomToFit(graphData.nodes, 2 * container, 2 * container)
  /\ lastEvent' = Event("zoom", 0)
  /\ UNCHANGED <<buildVars, activeSubgraph, linkOpacity, linkTransition, hovered, highlight,
                 audio, twin, pressed, mousemoving, wasDragged, dragStartPos, simulation,
                 timers, activeCategory>>

NextZoom == ZoomToVisibleNodes \/ ZoomToFit

SpecZoom == InitZoom /\ [][NextZoom]_vars

\* ------------------------------------------------------------------------
\* Properties of built graphs
\* ------------------------------------------------------------------------

NodeIds(gd) == {gd.nodes[i].id : i \in 1..Len(gd.nodes)}

LinkSet(gd) == {gd.links[i] : i \in 1..Len(gd.links)}

NodesOfType(gd, type) == {i \in 1..Len(gd.nodes) : gd.nodes[i].type = type}

\* C8: every built graph has exactly one center node, every item's category
\* is the category of a category node of the graph, and both endpoint
\* identities of every link are identities of nodes of the graph.
C8_WellFormed ==
  builds > 0 =>
    /\ Cardinality(NodesOfType(graphData, "center")) = 1
    /\ \A i \in NodesOfType(graphData, "item") :
         \E c \in NodesOfType(graphData, "category") :
           graphData.nodes[c].category = graphData.nodes[i].category
    /\ \A l \in LinkSet(graphData) :
         l.source \in NodeIds(graphData) /\ l.target \in NodeIds(graphData)

\* A built graph with a missing section block, items in two categories, a
\* reference link and a link target that did not resolve.
C8_Witness ==
  /\ builds > 0
  /\ \E k \in SectionKeys : ~page.blocks[k].present
  /\ \E l \in LinkSet(graphData) : l.type = "reference"
  /\ \E i, j \in NodesOfType(graphData, "item") :
       graphData.nodes[i].category # graphData.nodes[j].category
  /\ \E i \in NodesOfType(graphData, "item") :
       \E k \in 1..Len(graphData.nodes[i].linksTo) :
         nodeIndexGet(graphData.nodes, graphData.nodes[i].linksTo[k]) = 0

\* C9: in every built graph no two nodes have the same identity string.
C9_UniqueIds ==
  builds > 0 =>
    \A i, j \in 1..Len(graphData.nodes) :
      i # j => graphData.nodes[i].id # graphData.nodes[j].id

\* C10: a second build over the page the first build left behind yields the
\* same node identities and the same links (source, target, kind).
C10_Idempotent ==
  builds >= 2 =>
    /\ NodeIds(graphData) = NodeIds(prevGraph)
    /\ LinkSet(graphData) = LinkSet(prevGraph)

\* A second build in which some identity had to be derived by the first
\* build and was read back from the content block by the second.
C10_Witness ==
  /\ builds = 2
  /\ \E i \in NodesOfType(graphData, "item") :
       graphData.nodes[i].id = graphData.nodes[i].category \o <<"-","a","b","-","0">>
  /\ \E l \in LinkSet(graphData) : l.type = "reference"

\* ------------------------------------------------------------------------
\* Properties of the visibility state machine
\* ------------------------------------------------------------------------

\* The categories activeSubgraph records as open.
ActiveSet == {activeSubgraph.keys[k] : k \in 1..Len(activeSubgraph.keys)}

\* The categories that have an unhidden item, in a list of nodes.
OpenCategories(nodes) ==
  {nodes[n].category : n \in {m \in 1..Len(nodes) :
                                nodes[m].type = "item" /\ ~nodes[m].hidden}}

AllItemsHidden(nodes) ==
  \A n \in 1..Len(nodes) : nodes[n].type = "item" => nodes[n].hidden

\* The step is the click handler of a node of the given type running past
\* its wasDragged gate.
ClickStep(type) ==
  /\ pressed # 0
  /\ lastEvent' = Event("click", pressed)
  /\ Node(pressed).type = type

\* The last handler that ran was an accepted click on a node of the type.
Clicked(type) ==
  /\ lastEvent.type = "click"
  /\ Node(lastEvent.node).type = type

\* C1: in every state reached by category, item, center and background
\* clicks, an item node is unhidden if and only if its category is in the
\* set activeSubgraph records (empty for null); with activeSubgraph null
\* every item node is hidden.
C1_HiddenFollowsActive ==
  /\ \A n \in Items : ~Node(n).hidden <=> Node(n).category \in ActiveSet
  /\ activeSubgraph = ASNull => AllItemsHidden(graphData.nodes)
  /\ activeSubgraph.kind = "key" => Len(activeSubgraph.keys) = 1
  /\ activeSubgraph.kind = "array" => Len(activeSubgraph.keys) > 0

\* Multi-open after an item click: two categories recorded, their items
\* unhidden and an item of a third category hidden.
C1_Witness ==
  /\ Clicked("item")
  /\ activeSubgraph.kind = "array"
  /\ Cardinality(ActiveSet) = 2
  /\ Cardinality(OpenCategories(graphData.nodes)) = 2
  /\ \E n \in Items : Node(n).hidden

\* No stroke-opacity transition is scheduled or running.
Settled == \A l \in Links : linkTransition[l].left = 0

\* C2: once the transitions have run, a branch link is visible (stroke
\* opacity above 0) if and only if its target item is unhidden, and a
\* reference link if and only if both of its endpoints are unhidden,
\* whatever the order of clicks, hover events and transitions before.
C2_LinksMirrorItems ==
  Settled =>
    \A l \in Links :
      /\ Link(l).type = "branch" =>
           (linkOpacity[l] > 0 <=> ~Node(TargetNode(l)).hidden)
      /\ Link(l).type = "reference" =>
           (linkOpacity[l] > 0 <=>
              ~Node(SourceNode(l)).hidden /\ ~Node(TargetNode(l)).hidden)

\* C3: an accepted click on category node X leads from closed to
\* single-open(X), from single-open(X) to closed with every item hidden, and
\* from single-open(Y), Y different from X, to single-open(X).
C3_CategoryClick ==
  [][ClickStep("category") =>
       LET X == Node(pressed).category
       IN /\ activeSubgraph = ASNull =>
               /\ activeSubgraph' = ASKey(X)
               /\ OpenCategories(graphData'.nodes) \subseteq {X}
               /\ \A n \in Items :
                    Node(n).category = X => ~graphData'.nodes[n].hidden
          /\ activeSubgraph = ASKey(X) =>
               /\ activeSubgraph' = ASNull
               /\ AllItemsHidden(graphData'.nodes)
          /\ (activeSubgraph.kind = "key" /\ activeSubgraph # ASKey(X)) =>
               /\ activeSubgraph' = ASKey(X)
               /\ OpenCategories(graphData'.nodes) \subseteq {X}
               /\ \A n \in Items :
                    Node(n).category = X => ~graphData'.nodes[n].hidden]_vars

\* The second of two clicks on the same category node has just closed it:
\* the accordion still shows its section, the graph is closed again.
C3_Witness ==
  /\ Clicked("category")
  /\ activeSubgraph = ASNull
  /\ activeCategory = Node(lastEvent.node).category
  /\ lastZoom = "fit"
  /\ \E n \in Items : Node(n).category = activeCategory

\* C4: immediately after an accepted category-node click the unhidden items
\* belong to at most one category, and a step that leaves items of more
\* than one category unhidden, coming from a state with at most one, is an
\* accepted item-node click.
C4_AtMostOneAfterCategory ==
  /\ [](Clicked("category") =>
          Cardinality(OpenCategories(graphData.nodes)) <= 1)
  /\ [][(/\ Cardinality(OpenCategories(graphData.nodes)) <= 1
         /\ Cardinality(OpenCategories(graphData'.nodes)) > 1)
        => ClickStep("item")]_vars

\* A category click that found more than one category open: it opened a
\* category that the multi-open state recorded, so the array was replaced
\* by that key.
C4_Witness ==
  /\ Clicked("category")
  /\ activeSubgraph.kind = "key"
  /\ Cardinality(OpenCategories(graphData.nodes)) = 1
  /\ \E n \in Items :
       /\ Node(n).hidden
       /\ \E l \in Links :
            /\ Link(l).type = "reference"
            /\ Connected(l, n)
            /\ linkOpacity[l] > 0

\* The items joined to item n by a reference link, in either direction.
JoinedItems(n) ==
  {m \in Items :
    \E l \in Links :
      /\ Link(l).type = "reference"
      /\ \/ Link(l).source = Node(n).id /\ Link(l).target = Node(m).id
         \/ Link(l).target = Node(n).id /\ Link(l).source = Node(m).id}

\* C5: immediately after an accepted click on item node I an item is
\* unhidden if and only if its category is I's own or that of an item
\* joined to I by a reference link in either direction.
C5_ItemClickOpensRelated ==
  Clicked("item") =>
    LET I == lastEvent.node
        opened == {Node(I).category} \cup {Node(m).category : m \in JoinedItems(I)}
    IN /\ \A n \in Items : ~Node(n).hidden <=> Node(n).category \in opened
       /\ ActiveSet = opened

\* An item that is the source of one reference link and the target of
\* another was clicked: three categories are open.
C5_Witness ==
  /\ Clicked("item")
  /\ \E l \in Links : Link(l).type = "reference" /\ Link(l).source = Node(lastEvent.node).id
  /\ \E l \in Links : Link(l).type = "reference" /\ Link(l).target = Node(lastEvent.node).id
  /\ Cardinality(OpenCategories(graphData.nodes)) = 3

\* C6: a click on the background leads from single-open and multi-open to
\* closed (activeSubgraph null, every item hidden, every branch and
\* reference link sent to stroke opacity 0) and from closed changes neither
\* activeSubgraph nor any hidden flag nor any link's opacity or transition.
C6_BackgroundClick ==
  [][lastEvent' = Event("background", 0) =>
       IF Truthy(activeSubgraph)
       THEN /\ activeSubgraph' = ASNull
            /\ AllItemsHidden(graphData'.nodes)
            /\ \A l \in Links :
                 Link(l).type \in {"branch", "reference"} =>
                   linkTransition'[l] = Transition(0)
       ELSE /\ activeSubgraph' = activeSubgraph
            /\ graphData' = graphData
            /\ linkOpacity' = linkOpacity
            /\ linkTransition' = linkTransition]_vars

\* The background was clicked while a reference link and a branch link were
\* showing: both are now fading out.
C6_Witness ==
  /\ lastEvent = Event("background", 0)
  /\ activeSubgraph = ASNull
  /\ \E l \in Links :
       Link(l).type = "reference" /\ linkOpacity[l] > 0
         /\ linkTransition[l] = Transition(0)
  /\ \E l \in Links :
       Link(l).type = "branch" /\ linkOpacity[l] > 0
         /\ linkTransition[l] = Transition(0)

\* C7: immediately after an accepted click on the center node
\* activeSubgraph is null, every item is hidden, the center is pinned at the
\* container's center, every category and item node is unpinned, the
\* simulation runs with its alpha raised, and the reframe of reshuffleGraph
\* is pending.
C7_CenterClick ==
  Clicked("center") =>
    /\ activeSubgraph = ASNull
    /\ AllItemsHidden(graphData.nodes)
    /\ \A n \in Nodes :
         IF Node(n).type = "center"
         THEN Node(n).fx = container /\ Node(n).fy = container
         ELSE Node(n).fx = Unpinned /\ Node(n).fy = Unpinned
    /\ simulation.running
    /\ simulation.alpha \in {30, 80}
    /\ \E i \in 1..Len(timers) : timers[i] = "reshuffle"

\* The center was clicked while a subgraph was open (toggleSubgraph(null)
\* ran after the reshuffle and left alpha at 0.3, with a category reframe
\* still pending).
C7_Witness ==
  /\ Clicked("center")
  /\ simulation.alpha = 30
  /\ timers = <<"category", "reshuffle">>

\* ------------------------------------------------------------------------
\* Properties of the builders, continued
\* ------------------------------------------------------------------------

LinksOfType(gd, type) == {l \in 1..Len(gd.links) : gd.links[l].type = type}

\* One spine link for each category node, and as many branch links from a
\* category node to an identity as there are item nodes of that category
\* with that identity.
OneLinkPerNode(gd) ==
  /\ \A c \in NodesOfType(gd, "category") :
       Cardinality({l \in LinksOfType(gd, "spine") :
                      gd.links[l].target = gd.nodes[c].id
                        /\ gd.links[l].source = CenterId}) = 1
  /\ Cardinality(LinksOfType(gd, "spine")) = Cardinality(NodesOfType(gd, "category"))
  /\ Cardinality(LinksOfType(gd, "branch")) = Cardinality(NodesOfType(gd, "item"))
  /\ \A i \in NodesOfType(gd, "item") :
       Cardinality({l \in LinksOfType(gd, "branch") :
                      /\ gd.links[l].source = CatId(gd.nodes[i].category)
                      /\ gd.links[l].target = gd.nodes[i].id})
         = Cardinality({j \in NodesOfType(gd, "item") :
                          /\ gd.nodes[j].category = gd.nodes[i].category
                          /\ gd.nodes[j].id = gd.nodes[i].id})

\* The pairs (i, j) of item nodes of different categories such that the
\* text of i holds the token of j as a whole word, the token being at least
\* three characters long.
TokenMatches(gd) ==
  {p \in NodesOfType(gd, "item") \X NodesOfType(gd, "item") :
     /\ gd.nodes[p[1]].category # gd.nodes[p[2]].category
     /\ Len(gd.nodes[p[2]].referenceId) >= 3
     /\ WholeWordTest(gd.nodes[p[2]].referenceId, gd.nodes[p[1]].fullText)}

\* C11: the builder with automatic reference detection pushes one spine
\* link per category node and one branch link per item node (none for a
\* section without content blocks), and when exactly one item's text holds
\* the token of one item of another category the graph has exactly one
\* reference link, which joins that pair.
C11_LinkCounts ==
  builds > 0 =>
    /\ OneLinkPerNode(graphData)
    /\ Cardinality(TokenMatches(graphData)) = 1 =>
         /\ Cardinality(LinksOfType(graphData, "reference")) = 1
         /\ \A l \in LinksOfType(graphData, "reference") :
              \E p \in TokenMatches(graphData) :
                /\ graphData.links[l].source = graphData.nodes[p[1]].id
                /\ graphData.links[l].target = graphData.nodes[p[2]].id

\* C12: for a configured category whose section block is absent the built
\* graph has no node of that category, no spine link to its category node
\* and no branch link from it, and every section block that is present
\* still has its category node, its spine link and one item node per
\* content block.
C12_MissingSectionSkipped ==
  builds > 0 =>
    \A k \in SectionKeys :
      IF ~page.blocks[k].present
      THEN /\ \A n \in 1..Len(graphData.nodes) :
                graphData.nodes[n].type \in {"category", "item"} =>
                  graphData.nodes[n].category # k
           /\ \A l \in LinksOfType(graphData, "spine") :
                graphData.links[l].target # CatId(k)
           /\ \A l \in LinksOfType(graphData, "branch") :
                graphData.links[l].source # CatId(k)
      ELSE /\ Cardinality({n \in NodesOfType(graphData, "category") :
                             graphData.nodes[n].category = k
                               /\ graphData.nodes[n].id = CatId(k)}) = 1
           /\ Cardinality({l \in LinksOfType(graphData, "spine") :
                             graphData.links[l].target = CatId(k)}) = 1
           /\ Cardinality({n \in NodesOfType(graphData, "item") :
                             graphData.nodes[n].category = k})
                = Len(page.blocks[k].items)
           /\ Cardinality({l \in LinksOfType(graphData, "branch") :
                             graphData.links[l].source = CatId(k)})
                = Len(page.blocks[k].items)

\* The first configured section is missing and a later one was built with
\* its content blocks.
C12_Witness ==
  /\ builds > 0
  /\ ~page.blocks[Work].present
  /\ page.blocks[Projects].present
  /\ Len(page.blocks[Projects].items) = 2
  /\ Cardinality(NodesOfType(graphData, "item")) = 2
  /\ ~page.blocks[Contact].present

\* The identities of the item nodes of a graph.
ItemIds(gd) == {gd.nodes[n].id : n \in NodesOfType(gd, "item")}

\* C13: a listed target identity that names no item node gives no link;
\* the graph still has its spine and branch links, and every listed target
\* of the same item that names another item node gives a reference link.
C13_UnresolvedTargetDropped ==
  builds > 0 =>
    /\ \A l \in LinksOfType(graphData, "reference") :
         graphData.links[l].target \in ItemIds(graphData)
    /\ OneLinkPerNode(graphData)
    /\ \A n \in NodesOfType(graphData, "item") :
         \A k \in 1..Len(graphData.nodes[n].linksTo) :
           LET t == graphData.nodes[n].linksTo[k]
           IN IF t \in ItemIds(graphData) /\ t # graphData.nodes[n].id
              THEN [source |-> graphData.nodes[n].id, target |-> t,
                    type |-> "reference"] \in LinkSet(graphData)
              ELSE t \notin ItemIds(graphData) =>
                     [source |-> graphData.nodes[n].id, target |-> t,
                      type |-> "reference"] \notin LinkSet(graphData)

\* An item lists a target that names no node before one that names an item:
\* only the second gave a link.
C13_Witness ==
  /\ builds > 0
  /\ \E n \in NodesOfType(graphData, "item") :
       /\ Len(graphData.nodes[n].linksTo) = 2
       /\ graphData.nodes[n].linksTo[1] \notin ItemIds(graphData)
       /\ graphData.nodes[n].linksTo[2] \in ItemIds(graphData)
       /\ [source |-> graphData.nodes[n].id,
           target |-> graphData.nodes[n].linksTo[2],
           type |-> "reference"] \in LinkSet(graphData)

\* C14: every reference link of a built graph joins two item nodes of
\* different categories.
C14_ReferenceCrossCategory ==
  builds > 0 =>
    \A l \in LinksOfType(graphData, "reference") :
      \E i, j \in NodesOfType(graphData, "item") :
        /\ graphData.nodes[i].id = graphData.links[l].source
        /\ graphData.nodes[j].id = graphData.links[l].target
        /\ graphData.nodes[i].category # graphData.nodes[j].category

\* ------------------------------------------------------------------------
\* Properties of pins and gestures
\* ------------------------------------------------------------------------

\* C15: in every state reached through presses, drags of any node, clicks,
\* reshuffles and window resizes the center node has a fixed position.
C15_CenterPinned ==
  \A n \in Nodes :
    Node(n).type = "center" => Node(n).fx # Unpinned /\ Node(n).fy # Unpinned

\* The center node was dragged away from the container's center and
\* released there.
C15_Witness ==
  /\ lastEvent.type = "dragend"
  /\ Node(lastEvent.node).type = "center"
  /\ Node(lastEvent.node).fx # container
  /\ wasDragged

\* C16: while a node is dragged its fixed position is the pointer's, a
\* pressed node is pinned, and whenever no gesture is in progress no
\* category or item node is pinned.
C16_PinFollowsDrag ==
  /\ lastEvent.type = "drag" =>
       /\ pressed = lastEvent.node
       /\ Node(pressed).fx = lastEvent.at[1]
       /\ Node(pressed).fy = lastEvent.at[2]
  /\ pressed # 0 => Node(pressed).fx # Unpinned /\ Node(pressed).fy # Unpinned
  /\ pressed = 0 =>
       \A n \in Nodes :
         Node(n).type # "center" =>
           Node(n).fx = Unpinned /\ Node(n).fy = Unpinned

\* An item node was dragged further than the threshold and released.
C16_Witness ==
  /\ lastEvent.type = "dragend"
  /\ Node(lastEvent.node).type = "item"
  /\ wasDragged
  /\ pressed = 0
  /\ Node(lastEvent.node).fx = Unpinned

\* The step is the release that ends a gesture.
ReleaseStep == pressed # 0 /\ pressed' = 0

\* C17: a gesture whose pointer displacement (in client pixels) stayed
\* within the click distance runs the node's click handler and leaves no pin
\* on a category or item node; a gesture whose displacement exceeded it
\* runs no click transition; so every gesture is a click or a drag, never
\* both and never neither.
C17_ClickOrDrag ==
  [][ReleaseStep =>
       IF ~mousemoving
       THEN /\ lastEvent' = Event("click", pressed)
            /\ Node(pressed).type # "center" =>
                 graphData'.nodes[pressed].fx = Unpinned
       ELSE /\ lastEvent' = Event("dragend", pressed)
            /\ activeSubgraph' = activeSubgraph
            /\ \A n \in Nodes :
                 graphData'.nodes[n].hidden = graphData.nodes[n].hidden]_vars

\* The step changes which items are shown: an accepted click on a category
\* or item node, or a background or center click that collapses what is
\* open.
VisibilityChange ==
  \/ ClickStep("category")
  \/ ClickStep("item")
  \/ ClickStep("center") /\ Truthy(activeSubgraph)
  \/ /\ lastEvent' = Event("background", 0)
     /\ Truthy(activeSubgraph) /\ ~Truthy(activeSubgraph')

\* C18: every visibility change (category click, item click, background
\* collapse, center collapse) leaves the simulation running with a positive
\* alpha that is not lower than alpha was just before the change.
C18_AlphaNotLowered ==
  [][VisibilityChange =>
       /\ simulation'.running
       /\ simulation'.alpha > 0
       /\ simulation'.alpha >= simulation.alpha]_vars

\* The reframe rule that fits what is open: all visible nodes while a
\* subgraph is open, the skeleton of center and categories otherwise.
RuleFor(active) == IF Truthy(active) THEN "visible" ELSE "fit"

\* The step reframed the viewport by the rule of the new state, or left a
\* timer behind that will reframe it.
ReframeTriggered ==
  \/ lastZoom' = RuleFor(activeSubgraph')
  \/ Len(timers') > Len(timers)

\* C19: every visibility change triggers a reframe, and whenever no reframe
\* timer is pending the rule of the last reframe applied is the one that
\* fits the current visibility state, however clicks and timers interleave.
C19_ReframeMatches ==
  /\ [][VisibilityChange => ReframeTriggered]_vars
  /\ [](timers = <<>> /\ lastZoom # "none" => lastZoom = RuleFor(activeSubgraph))

\* What identifies the nodes and links of a graph: every node's id, type
\* and category, in order, and every link's endpoints and kind.
Identity(gd) ==
  [nodes |-> [n \in 1..Len(gd.nodes) |->
               [id |-> gd.nodes[n].id, type |-> gd.nodes[n].type,
                category |-> gd.nodes[n].category]],
   links |-> [l \in 1..Len(gd.links) |->
               [source |-> gd.links[l].source, target |-> gd.links[l].target,
                type |-> gd.links[l].type]]]

\* C20: once the graph is built, no click, hover, drag, resize, reshuffle or
\* theme change adds or removes a node or a link or changes a node's id, type
\* or category or a link's endpoints or kind.
C20_GraphFrozen == [][Identity(graphData') = Identity(graphData)]_vars

\* The theme was just changed to light in a graph in which a subgraph is
\* open and whose container was resized: colors, hidden flags and the
\* center's pin have all been written.
C20_Witness ==
  /\ lastEvent.type = "theme"
  /\ Node(1).color = COLORS("light").center
  /\ \E n \in Items : ~Node(n).hidden /\ Node(n).color = COLORS("light").node
  /\ container # ContainerCenter

\* C21: at most one content block carries the highlight class; while the
\* pointer is over an item node, the block highlighted is that item's own
\* block; after a hover-exit (the pointer is over no node) none is.
C21_OneHighlight ==
  /\ Cardinality(highlight) <= 1
  /\ hovered # 0 /\ Node(hovered).type = "item" => highlight = {hovered}
  /\ hovered = 0 => highlight = {}

\* C22: two runs that receive the same clicks, hovers and drags and differ
\* only in the state of the audio feedback (on, muted, unavailable) are in
\* the same graph state: activeSubgraph, hidden flags, pins, nodes, links.
C22_AudioIndependent == twin.graph = GraphState(activeSubgraph, graphData)

\* A subgraph was opened by a click and a node was dragged, with the sound
\* playing in one run and found unavailable in the other.
C22_Witness ==
  /\ lastEvent.type = "dragend" /\ wasDragged
  /\ Truthy(activeSubgraph)
  /\ audio.context /\ ~twin.audio.enabled

\* The step is a change of the theme.
ThemeStep == lastEvent' = Event("theme", 0) /\ graphData'.nodes[1].color # Node(1).color

\* The hidden flag and the pin of every node of a graph.
FlagsAndPins(gd) ==
  [n \in 1..Len(gd.nodes) |->
    [hidden |-> gd.nodes[n].hidden, fx |-> gd.nodes[n].fx, fy |-> gd.nodes[n].fy]]

ResizeStep == lastEvent' = Event("resize", 0) /\ container' # container

\* The hidden flag of every node of a graph.
HiddenFlags(gd) == [n \in 1..Len(gd.nodes) |-> gd.nodes[n].hidden]

HasHiddenEnd(l) ==
  \/ Link(l).type = "branch" /\ Node(TargetNode(l)).hidden
  \/ Link(l).type = "reference"
       /\ (Node(SourceNode(l)).hidden \/ Node(TargetNode(l)).hidden)

\* C25: hovering a node never reveals a hidden link: once the transitions
\* have run, no link attached to the node under the pointer that has a
\* hidden end is visible, whatever hide transition was in progress when the
\* pointer came over the node.
C25_HoverRevealsNothing ==
  hovered # 0 /\ Settled =>
    \A l \in Links :
      Connected(l, hovered) /\ HasHiddenEnd(l) => linkOpacity[l] = 0

\* The bounding box of the nodes in S grown by pad: <<minX, maxX, minY, maxY>>.
PaddedBox(gd, S, pad) ==
  <<SetMin({gd.nodes[n].x : n \in S}) - pad, SetMax({gd.nodes[n].x : n \in S}) + pad,
    SetMin({gd.nodes[n].y : n \in S}) - pad, SetMax({gd.nodes[n].y : n \in S}) + pad>>

\* The transform T frames the box in a viewport of w by h: its scale is the
\* smallest of w / box width, h / box height and cap, and it maps the
\* center of the box to the center of the viewport.
Frames(T, box, w, h, cap) ==
  LET fitW == Rat(w, box[2] - box[1])
      fitH == Rat(h, box[4] - box[3])
  IN /\ ~RatLess(fitW, T.k) /\ ~RatLess(fitH, T.k) /\ ~RatLess(cap, T.k)
     /\ RatEq(T.k, fitW) \/ RatEq(T.k, fitH) \/ RatEq(T.k, cap)
     \* ((minX + maxX) / 2) * k + x = w / 2, and the same for y
     /\ (box[1] + box[2]) * T.k[1] * T.x[2] + 2 * T.k[2] * T.x[1]
          = w * T.k[2] * T.x[2]
     /\ (box[3] + box[4]) * T.k[1] * T.y[2] + 2 * T.k[2] * T.y[1]
          = h * T.k[2] * T.y[2]

\* C26: a viewport reframe frames exactly the center, the categories and the
\* unhidden items (zoomToVisibleNodes) or the center and the categories
\* (zoomToFit): their bounding box grown by 100 / 80, at the scale
\* min(viewport width / box width, viewport height / box height, 1.5 / 1),
\* with the center of the box at the center of the viewport; and it changes
\* no node position, pin or hidden flag.
C26_ReframeGeometry ==
  [][lastEvent'.type = "zoom" =>
       /\ lastZoom'.rule \in {"visible", "fit"}
       /\ lastZoom'.rule = "visible" =>
            Frames(lastZoom',
                   PaddedBox(graphData,
                             {n \in Nodes : Node(n).type \in {"center", "category"}
                                              \/ (Node(n).type = "item" /\ ~Node(n).hidden)},
                             100),
                   2 * container, 2 * container, Rat(3, 2))
       /\ lastZoom'.rule = "fit" =>
            Frames(lastZoom',
                   PaddedBox(graphData,
                             {n \in Nodes : Node(n).type \in {"center", "category"}},
                             80),
                   2 * container, 2 * container, Rat(1, 1))
       /\ graphData' = graphData]_vars

\* zoomToVisibleNodes has framed a graph in which an unhidden item lies to
\* the right of every category and a hidden item lies below every node
\* framed: the width of the box decides the scale.
C26_Witness ==
  /\ lastEvent.type = "zoom" /\ lastZoom.rule = "visible"
  /\ \E i \in Items : /\ ~Node(i).hidden
                      /\ \A n \in Nodes : Node(n).type = "category" => Node(n).x < Node(i).x
  /\ \E i \in Items : /\ Node(i).hidden
                      /\ \A n \in Nodes : Node(n).type # "item" \/ ~Node(n).hidden
                                            => Node(n).y < Node(i).y
  /\ RatLess(lastZoom.k, Rat(1, 1))

\* The token occurs in the text as a whole word, letter case apart: the
\* text holds the token's characters in a row, with a word boundary before
\* the first and after the last.
OccursAsWholeWord(token, text) ==
  \E i \in 1..Len(text) :
    /\ i + Len(token) - 1 <= Len(text)
    /\ LowerStr(SubSeq(text, i, i + Len(token) - 1)) = LowerStr(token)
    /\ WordBoundary(text, i)
    /\ WordBoundary(text, i + Len(token))

\* C27: with automatic reference detection, every reference link goes from
\* an item A to another item B of a different category whose identity token
\* has at least 3 characters and occurs as a whole word (case-insensitively)
\* in A's text.
C27_AutoLinkOnlyIf ==
  builds > 0 =>
    \A l \in LinksOfType(graphData, "reference") :
      \E a \in NodesOfType(graphData, "item") : \E b \in NodesOfType(graphData, "item") :
        /\ graphData.links[l].source = graphData.nodes[a].id
        /\ graphData.links[l].target = graphData.nodes[b].id
        /\ a # b
        /\ graphData.nodes[a].id # graphData.nodes[b].id
        /\ graphData.nodes[a].category # graphData.nodes[b].category
        /\ Len(graphData.nodes[b].referenceId) >= 3
        /\ OccursAsWholeWord(graphData.nodes[b].referenceId, graphData.nodes[a].fullText)

\* The section blocks carrying the class active: toggleSection takes the
\* class off every block before it puts it on the one it opens.
ActiveSections == IF activeCategory = NullKey THEN {} ELSE {activeCategory}

\* C28: immediately after an accepted click on an item node the active
\* accordion section is that of the item's own category, also when the item
\* has cross-references to other categories; and at most one section is
\* active in every state.
C28_ItemSectionActive ==
  /\ Cardinality(ActiveSections) <= 1
  /\ Clicked("item") => ActiveSections = {Node(lastEvent.node).category}

\* C29: an accepted click on the node of a category whose items are
\* visible closes that category, whether it was opened by a click on its
\* node (single-open) or by a click on an item (multi-open, also when the
\* array holds that category alone): afterwards none of its items is
\* unhidden and activeSubgraph does not record it.
C29_CategoryClickCloses ==
  [][ClickStep("category") /\ Node(pressed).category \in OpenCategories(graphData.nodes) =>
       /\ Node(pressed).category \notin OpenCategories(graphData'.nodes)
       /\ \A k \in 1..Len(activeSubgraph'.keys) :
            activeSubgraph'.keys[k] # Node(pressed).category]_vars

\* C30: whenever no drag is in progress the center node is pinned at the
\* center of the viewport (fx and fy are half the container's width and
\* height), after any sequence of drags, resizes and reshuffles.
C30_CenterAtViewportCenter ==
  pressed = 0 =>
    \A n \in Nodes :
      Node(n).type = "center" => Node(n).fx = container /\ Node(n).fy = container

====
